---- MODULE Spec2Model ----
(***************************************************************************)
(* Control core of the arducam-imx477p sensor driver                       *)
(* (src/drivers/media/i2c/arducam-imx477p.c): the streaming / power state  *)
(* machine, the device mutex, the runtime-PM usage count the driver moves  *)
(* with pm_runtime_get_sync / pm_runtime_put, the V4L2 controls, and the   *)
(* register writes each handler puts on the bus.                           *)
(*                                                                         *)
(* Callers are threads that enter one subdev operation at a time.  An      *)
(* operation is cut into steps at the points where the runtime-PM worker   *)
(* (which runs imx477_suspend without the device mutex) can interleave.    *)
(* Every register write has a nondeterministic outcome (the bus may fail). *)
(***************************************************************************)
EXTENDS Integers, Sequences, FiniteSets, TLC

\* ---------------------------------------------------------------------------
\* Bounds of the model
\* ---------------------------------------------------------------------------
\* number of concurrent callers
NumThreads == 2
\* modelled length of mode_common_regs (the table holds several hundred rows)
CommonLen == 2
\* modelled length of a mode's reg_list
ModeLen == 2
\* usage_count is not tracked below -UsageFloor (it only drifts downwards)
UsageFloor == 4

Threads == 1..NumThreads

\* ---------------------------------------------------------------------------
\* Program constants
\* ---------------------------------------------------------------------------
IMX477_REG_VALUE_08BIT == 1
IMX477_REG_VALUE_16BIT == 2
IMX477_REG_MODE_SELECT == 256
IMX477_MODE_STANDBY == 0
IMX477_MODE_STREAMING == 1
IMX477_REG_ORIENTATION == 257
IMX477_PIXEL_RATE == 614400000
IMX477_REG_FRAME_LENGTH == 832
IMX477_FRAME_LENGTH_MAX == 65500
IMX477_REG_LINE_LENGTH == 834
IMX477_REG_CHIP_ID == 22
IMX477_LINE_LENGTH_MAX == 65520
IMX477_LONG_EXP_SHIFT_MAX == 7
IMX477_LONG_EXP_SHIFT_REG == 12544
IMX477_REG_EXPOSURE == 514
IMX477_EXPOSURE_OFFSET == 22
IMX477_EXPOSURE_MIN == 4
IMX477_EXPOSURE_DEFAULT == 1600
IMX477_REG_ANALOG_GAIN == 516
IMX477_ANA_GAIN_MIN == 0
IMX477_ANA_GAIN_MAX == 978
IMX477_REG_DIGITAL_GAIN == 526
IMX477_DGTL_GAIN_MIN == 256
IMX477_DGTL_GAIN_MAX == 65535
IMX477_REG_TEST_PATTERN == 1536
IMX477_REG_TEST_PATTERN_R == 1538
IMX477_REG_TEST_PATTERN_GR == 1540
IMX477_REG_TEST_PATTERN_B == 1542
IMX477_REG_TEST_PATTERN_GB == 1544
IMX477_TEST_PATTERN_COLOUR_MIN == 0
IMX477_TEST_PATTERN_COLOUR_MAX == 4095
\* imx477_compatible.extra_regs.num_of_regs
ExtraLen == 0

OK == "OK"
EIO == "EIO"
EBUSY == "EBUSY"
EPOWER == "EPOWER"
EINVAL == "EINVAL"

Min(a, b) == IF a < b THEN a ELSE b
Max(a, b) == IF a > b THEN a ELSE b
Pow2(n) == 2 ^ n
\* x >> n on non-negative integers
Shr(x, n) == x \div Pow2(n)

\* ---------------------------------------------------------------------------
\* Mode catalog
\* ---------------------------------------------------------------------------
SRGGB10 == "MEDIA_BUS_FMT_SRGGB10_1X10"

supported_modes ==
    << [bus_fmt |-> SRGGB10, width |-> 4056, height |-> 3040, line_length_pix |-> 18856,
        max_fps |-> [numerator |-> 100, denominator |-> 1000],
        timeperframe_default |-> [numerator |-> 100, denominator |-> 1000]],
       [bus_fmt |-> SRGGB10, width |-> 3840, height |-> 2160, line_length_pix |-> 13440,
        max_fps |-> [numerator |-> 100, denominator |-> 2000],
        timeperframe_default |-> [numerator |-> 100, denominator |-> 2000]],
       [bus_fmt |-> SRGGB10, width |-> 1920, height |-> 1080, line_length_pix |-> 8304,
        max_fps |-> [numerator |-> 100, denominator |-> 6000],
        timeperframe_default |-> [numerator |-> 100, denominator |-> 6000]] >>

\* imx477->cfg_num = ARRAY_SIZE(supported_modes)
cfg_num == Len(supported_modes)

\* The u64 product numerator * IMX477_PIXEL_RATE does not fit TLC's 32-bit
\* integers: MulDiv(a, b, c) is [q, r] with a * b = q * c + r and
\* 0 <= r < c, computed over the binary digits of a without forming a * b.
RECURSIVE MulDiv(_, _, _)
MulDiv(a, b, c) ==
    IF a = 0 THEN [q |-> 0, r |-> 0]
    ELSE LET h == MulDiv(a \div 2, b, c)
             s == 2 * h.r + (a % 2) * (b % c)
         IN  [q |-> 2 * h.q + (a % 2) * (b \div c) + s \div c, r |-> s % c]

\* a frame length that is raised to the height but not capped
imx477_get_frame_length_no_cap(mode, timeperframe) ==
    Max(MulDiv(timeperframe.numerator, IMX477_PIXEL_RATE,
               timeperframe.denominator * mode.line_length_pix).q, mode.height)

\* imx477_get_frame_length: truncating division, capped at the register
\* maximum (with a warning), then raised to the mode's height
imx477_get_frame_length(mode, timeperframe) ==
    LET raw == MulDiv(timeperframe.numerator, IMX477_PIXEL_RATE,
                      timeperframe.denominator * mode.line_length_pix).q
        capped == IF raw > IMX477_FRAME_LENGTH_MAX THEN IMX477_FRAME_LENGTH_MAX ELSE raw
    IN  Max(capped, mode.height)

\* imx477_set_framing_limits: frm_length_min and frm_length_default of each
\* mode of the catalog
frm_length_min ==
    [m \in 1..cfg_num |->
        imx477_get_frame_length(supported_modes[m], supported_modes[m].max_fps)]

frm_length_default ==
    [m \in 1..cfg_num |->
        imx477_get_frame_length(supported_modes[m], supported_modes[m].timeperframe_default)]

\* the limits imx477_set_framing_limits publishes for a mode
VblankMin(m) == frm_length_min[m] - supported_modes[m].height

VblankMax(m) == (Pow2(IMX477_LONG_EXP_SHIFT_MAX) * IMX477_FRAME_LENGTH_MAX)
                    - supported_modes[m].height

VblankDefault(m) == frm_length_default[m] - supported_modes[m].height

HblankMin(m) == supported_modes[m].line_length_pix - supported_modes[m].width

Abs(x) == IF x < 0 THEN 0 - x ELSE x

\* INT_MAX of the C type int (32 bits)
IntMax == (Pow2(30) - 1) + Pow2(30)

\* a + b in int for a, b >= 0: the kernel is built with -fno-strict-overflow,
\* so a sum above INT_MAX wraps to a + b - 2^32
AddInt(a, b) ==
    IF a > IntMax - b
    THEN ((a - Pow2(30)) - Pow2(30)) + ((b - Pow2(30)) - Pow2(30))
    ELSE a + b

\* imx477_get_reso_dist: abs() of each unsigned difference taken as an int,
\* and their sum in int (the requests of the model stay below 2^31, where
\* the conversion of the difference to int is exact)
imx477_get_reso_dist(mode, framefmt) ==
    AddInt(Abs(mode.width - framefmt.width), Abs(mode.height - framefmt.height))

\* imx477_find_best_fit: the loop over supported_modes, carried as
\* <<cur_best_fit, cur_best_fit_dist>>; the result is a catalog index (1-based)
RECURSIVE BestFitLoop(_, _, _)
BestFitLoop(i, best, framefmt) ==
    IF i > cfg_num THEN best[1]
    ELSE LET dist == imx477_get_reso_dist(supported_modes[i], framefmt)
         IN  IF (best[2] = -1 \/ dist < best[2])
                  /\ supported_modes[i].bus_fmt = framefmt.code
             THEN BestFitLoop(i + 1, <<i, dist>>, framefmt)
             ELSE BestFitLoop(i + 1, best, framefmt)

\* a search that starts from the last mode of the catalog
imx477_find_best_fit_from_last(framefmt) == BestFitLoop(1, <<cfg_num, -1>>, framefmt)

\* int cur_best_fit = 0; int cur_best_fit_dist = -1; the loop; the result is
\* supported_modes[cur_best_fit], also when no mode matched
imx477_find_best_fit(framefmt) == BestFitLoop(1, <<1, -1>>, framefmt)

\* ---------------------------------------------------------------------------
\* Controls
\* ---------------------------------------------------------------------------
\* the writable controls, in the order imx477_init_controls creates them (the
\* order __v4l2_ctrl_handler_setup replays them in)
CtrlOrder == << "VBLANK", "HBLANK", "EXPOSURE", "ANALOGUE_GAIN", "DIGITAL_GAIN",
                "HFLIP", "VFLIP", "TEST_PATTERN", "TEST_PATTERN_RED",
                "TEST_PATTERN_GREENR", "TEST_PATTERN_BLUE", "TEST_PATTERN_GREENB" >>

CtrlIds == {CtrlOrder[i] : i \in 1..Len(CtrlOrder)}

\* a table that holds the selector itself
imx477_test_pattern_val_raw == [i \in 0..4 |-> i]

\* imx477_test_pattern_val, indexed by the menu selector
imx477_test_pattern_val == [i \in 0..4 |-> CASE i = 0 -> 0
                                             [] i = 1 -> 2
                                             [] i = 2 -> 1
                                             [] i = 3 -> 3
                                             [] i = 4 -> 4]

\* imx477_write_reg puts the low `len` bytes of val on the bus, big-endian
\* (val << (8 * (4 - len)) in 32 bits, then the first len bytes are sent)
WireVal(len, val) == val % (256 ^ len)

\* ctrl->minimum / ctrl->maximum of each control; the VBLANK and HBLANK limits
\* follow the current mode, the EXPOSURE maximum follows VBLANK
CtrlMin(id, m) ==
    CASE id = "VBLANK" -> VblankMin(m)
      [] id = "HBLANK" -> HblankMin(m)
      [] id = "EXPOSURE" -> IMX477_EXPOSURE_MIN
      [] id = "ANALOGUE_GAIN" -> IMX477_ANA_GAIN_MIN
      [] id = "DIGITAL_GAIN" -> IMX477_DGTL_GAIN_MIN
      [] id \in {"HFLIP", "VFLIP", "TEST_PATTERN"} -> 0
      [] OTHER -> IMX477_TEST_PATTERN_COLOUR_MIN

CtrlMax(id, m, emax) ==
    CASE id = "VBLANK" -> VblankMax(m)
      [] id = "HBLANK" -> IMX477_LINE_LENGTH_MAX
      [] id = "EXPOSURE" -> emax
      [] id = "ANALOGUE_GAIN" -> IMX477_ANA_GAIN_MAX
      [] id = "DIGITAL_GAIN" -> IMX477_DGTL_GAIN_MAX
      [] id \in {"HFLIP", "VFLIP"} -> 1
      [] id = "TEST_PATTERN" -> 4
      [] OTHER -> IMX477_TEST_PATTERN_COLOUR_MAX

\* the control framework brings a requested integer value into the range
\* (step 1) before the driver sees it
Clamp(v, lo, hi) == IF v < lo THEN lo ELSE IF v > hi THEN hi ELSE v

\* a loop that halves at most once
ShiftLoop_once(val, shift) ==
    IF val > IMX477_FRAME_LENGTH_MAX THEN [val |-> val \div 2, shift |-> shift + 1]
    ELSE [val |-> val, shift |-> shift]

\* imx477_set_frame_length: the loop that halves val and counts the shift
RECURSIVE ShiftLoop(_, _)
ShiftLoop(val, shift) ==
    IF val > IMX477_FRAME_LENGTH_MAX THEN ShiftLoop(val \div 2, shift + 1)
    ELSE [val |-> val, shift |-> shift]

Wr(reg, len, val) == [reg |-> reg, len |-> len, val |-> val]

\* imx477_set_frame_length(val): the shift it leaves in long_exp_shift and the
\* two register writes it issues (the second only if the first succeeded)
imx477_set_frame_length(val) ==
    LET fl == ShiftLoop(val, 0)
    IN  [shift |-> fl.shift,
         writes |-> << Wr(IMX477_REG_FRAME_LENGTH, IMX477_REG_VALUE_16BIT, fl.val),
                       Wr(IMX477_LONG_EXP_SHIFT_REG, IMX477_REG_VALUE_08BIT, fl.shift) >>]

\* the register writes of the switch in imx477_set_ctrl, for control id being
\* set to v; c holds what the switch reads of the other controls (their
\* ctrl->val), shift is long_exp_shift as it stands when the switch runs
CtrlWrites(id, v, c, m, shift) ==
    CASE id = "ANALOGUE_GAIN" -> << Wr(IMX477_REG_ANALOG_GAIN, IMX477_REG_VALUE_16BIT, v) >>
      [] id = "EXPOSURE" -> << Wr(IMX477_REG_EXPOSURE, IMX477_REG_VALUE_16BIT, Shr(v, shift)) >>
      [] id = "DIGITAL_GAIN" -> << Wr(IMX477_REG_DIGITAL_GAIN, IMX477_REG_VALUE_16BIT, v) >>
      [] id = "TEST_PATTERN" ->
            << Wr(IMX477_REG_TEST_PATTERN, IMX477_REG_VALUE_16BIT, imx477_test_pattern_val[v]) >>
      [] id = "TEST_PATTERN_RED" -> << Wr(IMX477_REG_TEST_PATTERN_R, IMX477_REG_VALUE_16BIT, v) >>
      [] id = "TEST_PATTERN_GREENR" -> << Wr(IMX477_REG_TEST_PATTERN_GR, IMX477_REG_VALUE_16BIT, v) >>
      [] id = "TEST_PATTERN_BLUE" -> << Wr(IMX477_REG_TEST_PATTERN_B, IMX477_REG_VALUE_16BIT, v) >>
      [] id = "TEST_PATTERN_GREENB" -> << Wr(IMX477_REG_TEST_PATTERN_GB, IMX477_REG_VALUE_16BIT, v) >>
      [] id = "HFLIP" -> << Wr(IMX477_REG_ORIENTATION, 1, v + 2 * c["VFLIP"]) >>
      [] id = "VFLIP" -> << Wr(IMX477_REG_ORIENTATION, 1, c["HFLIP"] + 2 * v) >>
      [] id = "VBLANK" -> imx477_set_frame_length(supported_modes[m].height + v).writes
      [] id = "HBLANK" -> << Wr(IMX477_REG_LINE_LENGTH, 2, supported_modes[m].width + v) >>

\* long_exp_shift after imx477_set_ctrl(id, v): only VBLANK moves it
ShiftAfter(id, v, m, shift) ==
    IF id = "VBLANK" THEN imx477_set_frame_length(supported_modes[m].height + v).shift
    ELSE shift

\* ---------------------------------------------------------------------------
\* State
\* ---------------------------------------------------------------------------
VARIABLES
    streaming,            \* imx477->streaming
    power_on,             \* imx477->power_on (the s_power flag)
    common_regs_written,  \* imx477->common_regs_written
    cur_mode,             \* imx477->cur_mode, as an index into supported_modes
    long_exp_shift,       \* imx477->long_exp_shift
    ctrl,                 \* the controls' current values (ctrl->cur.val)
    exposure_max,         \* imx477->exposure->maximum
    grabbed,              \* V4L2_CTRL_FLAG_GRABBED on hflip and vflip
    flip_val,             \* imx477->hflip->val and imx477->vflip->val (the new values)
    mutex,                \* imx477->mutex: 0 = free, else the owning thread
    usage_count,          \* dev->power.usage_count
    runtime_active,       \* runtime status RPM_ACTIVE: supplies and clock are on
    sensor_common,        \* the sensor's registers hold the common and extra programs
    request_pending,      \* an asynchronous suspend request is queued on pm_wq
    wire,                 \* register writes attempted by the operations in progress, in bus order
    pc,                   \* each thread's position
    op,                   \* each thread's current operation and argument
    ret,                  \* each thread's return value
    pre                   \* what each thread saw: streaming at entry, common_regs_written as read

dev == <<streaming, power_on, common_regs_written, cur_mode, long_exp_shift, ctrl,
         exposure_max, grabbed, flip_val>>
hw == <<runtime_active, sensor_common>>
pm == <<usage_count, hw, request_pending>>
vars == <<streaming, power_on, common_regs_written, cur_mode, long_exp_shift, ctrl,
          exposure_max, grabbed, flip_val, mutex, usage_count, runtime_active, sensor_common,
          request_pending, wire, pc, op, ret, pre>>

NoOp == [name |-> "none", arg |-> 0]
NoPre == [streaming |-> FALSE, common |-> FALSE]

\* ---------------------------------------------------------------------------
\* The bus log
\* ---------------------------------------------------------------------------
\* One attempted register write: who issued it, as part of what (ph: "common",
\* "extra", "mode", "ctrl", "select"), which register (a table index for the
\* register programs, an address otherwise), the value on the bus, and whether
\* the transfer succeeded.
Entry(t, ph, reg, val, ok) == [t |-> t, ph |-> ph, reg |-> reg, val |-> val, ok |-> ok]

\* What the bus may do.  A sensor without supplies, clock or released reset
\* acknowledges nothing, so a transfer can succeed only while the device is
\* runtime-active; a powered sensor may still fail any transfer.
\* Acks: the outcomes of one transfer; Succeeding(len): how many of len
\* transfers in a row may succeed before the first failure.
Acks == IF runtime_active THEN BOOLEAN ELSE {FALSE}

Succeeding(len) == IF runtime_active THEN 0..len ELSE {0}

\* imx477_write_regs that does not return at the failed row: every row is
\* attempted
imx477_write_regs_no_return(t, ph, len, k) ==
    [i \in 1..len |-> [t |-> t, ph |-> ph, reg |-> i, val |-> 0, ok |-> i <= k]]

\* imx477_write_regs that tries a failed row a second time before it returns
imx477_write_regs_retry(t, ph, len, k) ==
    [i \in 1..(IF k < len THEN k + 2 ELSE len) |->
        Entry(t, ph, IF i <= k THEN i ELSE k + 1, 0, i <= k)]

\* imx477_write_regs(regs, len) with k transfers succeeding: rows 1..k are
\* written in index order; if k < len row k+1 is attempted once, fails, and
\* the loop returns, so no later row is attempted.
imx477_write_regs(t, ph, len, k) ==
    [i \in 1..(IF k < len THEN k + 1 ELSE len) |-> Entry(t, ph, i, 0, i <= k)]

\* imx477_write_reg(reg, len, val): a width above 4 is refused before any
\* transfer; otherwise the low len bytes of val go on the bus, and the call
\* fails only if the transfer does (ack)
imx477_write_reg(t, reg, len, val, ack) ==
    IF len > 4 THEN [ret |-> EINVAL, entries |-> << >>]
    ELSE [ret |-> IF ack THEN OK ELSE EIO,
          entries |-> << Entry(t, "reg", reg, WireVal(len, val), ack) >>]

\* imx477_read_reg(reg, len, &val): the same test of the width, then the
\* two-message transfer
imx477_read_reg(t, reg, len, ack) ==
    IF len > 4 THEN [ret |-> EINVAL, entries |-> << >>]
    ELSE [ret |-> IF ack THEN OK ELSE EIO, entries |-> << Entry(t, "read", reg, 0, ack) >>]

\* the same for the writes of one imx477_set_ctrl call
CtrlEntries(t, ws, k) ==
    [i \in 1..(IF k < Len(ws) THEN k + 1 ELSE Len(ws)) |->
        Entry(t, "ctrl", ws[i].reg, WireVal(ws[i].len, ws[i].val), i <= k)]

\* ---------------------------------------------------------------------------
\* Runtime PM core as the driver drives it (v5.10 behaviour of
\* pm_runtime_get_sync, pm_runtime_put, pm_runtime_put_noidle and of the
\* pm_wq worker that serves asynchronous requests).  p = [uc, pend]: the
\* usage count and whether a suspend request is queued.
\* ---------------------------------------------------------------------------
\* atomic_dec of the usage count; the count is not tracked below -UsageFloor
UsageDec(n) == IF n - 1 < 0 - UsageFloor THEN 0 - UsageFloor ELSE n - 1

\* pm_runtime_put: drop one reference; only the drop that reaches exactly
\* zero (atomic_dec_and_test) on an active device queues a suspend request
pm_runtime_put(p, active) ==
    [uc |-> UsageDec(p.uc), pend |-> p.pend \/ (p.uc - 1 = 0 /\ active)]

\* n calls of pm_runtime_put in a row
RECURSIVE PutN(_, _, _)
PutN(n, p, active) == IF n = 0 THEN p ELSE PutN(n - 1, pm_runtime_put(p, active), active)

\* rpm_check_suspend_allowed: only a positive usage count vetoes a suspend
SuspendAllowed(n) == ~(n > 0)

\* __imx477_power_off: "Force reprogramming of the common registers"
PowerOffFlag(flag) == FALSE

\* a power-on that resets the flag
PowerOnFlag_reset(flag) == FALSE

\* __imx477_power_on does not touch common_regs_written
PowerOnFlag(flag) == flag

\* pm_runtime_get_sync that returns >= 0: the count goes up, a queued request
\* is cancelled; a suspended device is resumed through imx477_resume ->
\* __imx477_power_on, after which rpm_resume queues an idle check that turns
\* into a suspend request unless the usage count is positive.
GetSyncOk ==
    /\ usage_count' = usage_count + 1
    /\ runtime_active' = TRUE
    /\ request_pending' = (~runtime_active /\ SuspendAllowed(usage_count + 1))
    /\ common_regs_written' =
           (IF runtime_active THEN common_regs_written ELSE PowerOnFlag(common_regs_written))
    /\ UNCHANGED <<streaming, sensor_common, wire>>

\* pm_runtime_get_sync that fails: __imx477_power_on failed in imx477_resume,
\* whose error path writes MODE_STANDBY (result ignored) and clears
\* streaming; the caller then drops the count with pm_runtime_put_noidle.
GetSyncFail(t) ==
    /\ ~runtime_active
    /\ usage_count' = UsageDec(usage_count + 1)
    /\ request_pending' = FALSE
    /\ streaming' = FALSE
    /\ wire' = Append(wire, Entry(t, "select", IMX477_REG_MODE_SELECT,
                                  IMX477_MODE_STANDBY, FALSE))
    /\ UNCHANGED <<hw, common_regs_written>>

\* The pm_wq worker serves the queued request: imx477_suspend ->
\* __imx477_power_off, unless the usage count vetoes it.  No mutex is taken.
PmWork ==
    /\ request_pending
    /\ request_pending' = FALSE
    /\ IF SuspendAllowed(usage_count) /\ runtime_active
       THEN /\ runtime_active' = FALSE
            /\ sensor_common' = FALSE
            /\ common_regs_written' = PowerOffFlag(common_regs_written)
       ELSE UNCHANGED <<hw, common_regs_written>>
    /\ UNCHANGED <<streaming, power_on, cur_mode, long_exp_shift, ctrl, exposure_max,
                   grabbed, flip_val, mutex, usage_count, wire, pc, op, ret, pre>>

\* ---------------------------------------------------------------------------
\* The device mutex
\* ---------------------------------------------------------------------------
\* a lock that never blocks
MutexFree_always(m) == TRUE

\* mutex_lock succeeds only on a free mutex; a caller blocks otherwise
MutexFree(m) == m = 0

\* an operation that forgets to lock
MutexAcquire_skipped(m, t) == m

\* mutex_lock makes the caller the owner
MutexAcquire(m, t) == t

\* mutex_unlock
MutexRelease(m) == 0

\* A thread enters an operation: takes the mutex and snapshots the device.
\* (A caller that has returned does its local bookkeeping, Return, before
\* another caller enters.)
Enter(t, name, arg) ==
    /\ pc[t] = "idle"
    /\ \A u \in Threads : pc[u] # "done"
    /\ MutexFree(mutex)
    /\ mutex' = MutexAcquire(mutex, t)
    /\ op' = [op EXCEPT ![t] = [name |-> name, arg |-> arg]]
    /\ pre' = [pre EXCEPT ![t] = [streaming |-> streaming, common |-> FALSE]]

Goto(t, l) == pc' = [pc EXCEPT ![t] = l]
SetRet(t, r) == ret' = [ret EXCEPT ![t] = r]

\* mutex_unlock at the end of an operation's last step
Leave(t) == mutex' = MutexRelease(mutex) /\ Goto(t, "done")

\* mutex_unlock and return of the paths that leave right after the lock
Unlock(t) ==
    /\ pc[t] = "unlock"
    /\ mutex' = MutexRelease(mutex)
    /\ Goto(t, "done")
    /\ UNCHANGED <<dev, pm, wire, op, ret, pre>>

\* the caller has its result; its writes leave the log
Return(t) ==
    /\ pc[t] = "done"
    /\ Goto(t, "idle")
    /\ op' = [op EXCEPT ![t] = NoOp]
    /\ ret' = [ret EXCEPT ![t] = OK]
    /\ pre' = [pre EXCEPT ![t] = NoPre]
    /\ wire' = SelectSeq(wire, LAMBDA e : e.t # t)
    /\ UNCHANGED <<dev, pm, mutex>>

\* ---------------------------------------------------------------------------
\* Init: the device after imx477_probe
\* ---------------------------------------------------------------------------
\* the controls' defaults from imx477_init_controls
CtrlDefaults ==
    [id \in CtrlIds |->
        CASE id = "EXPOSURE" -> IMX477_EXPOSURE_DEFAULT
          [] id = "DIGITAL_GAIN" -> IMX477_DGTL_GAIN_MIN
          [] id \in {"TEST_PATTERN_RED", "TEST_PATTERN_GREENR", "TEST_PATTERN_BLUE",
                     "TEST_PATTERN_GREENB"} -> IMX477_TEST_PATTERN_COLOUR_MAX
          [] OTHER -> 0]

\* the two flip values among the control values c
FlipsOf(c) == [id \in {"HFLIP", "VFLIP"} |-> c[id]]

\* probe: cur_mode = supported_modes[0]; imx477_init_controls ends in
\* imx477_set_framing_limits, which applies VBLANK and HBLANK through
\* imx477_set_ctrl: once from __v4l2_ctrl_modify_range (the value 0 is
\* clamped up to the new minimum) and once from __v4l2_ctrl_s_ctrl.  probe
\* calls imx477_init_controls before __imx477_power_on, so the sensor
\* acknowledges none of these writes and neither value is committed; the
\* exposure range is still adjusted from the requested VBLANK.  Each
\* application ends in pm_runtime_put with no matching get, so the usage
\* count starts below zero.  Then pm_runtime_idle suspends the device and
\* __imx477_power_off clears common_regs_written.
ProbeCtrlApplications == << "VBLANK", "VBLANK", "HBLANK", "HBLANK" >>

Init ==
    /\ streaming = FALSE
    /\ power_on = FALSE
    /\ common_regs_written = FALSE
    /\ cur_mode = 1
    /\ long_exp_shift = 0
    /\ ctrl = CtrlDefaults
    /\ usage_count = PutN(Len(ProbeCtrlApplications), [uc |-> 0, pend |-> FALSE], FALSE).uc
    /\ exposure_max = supported_modes[1].height + VblankDefault(1) - IMX477_EXPOSURE_OFFSET
    /\ grabbed = FALSE
    /\ flip_val = FlipsOf(CtrlDefaults)
    /\ mutex = 0
    /\ runtime_active = FALSE
    /\ sensor_common = FALSE
    /\ request_pending = FALSE
    /\ wire = <<>>
    /\ pc = [t \in Threads |-> "idle"]
    /\ op = [t \in Threads |-> NoOp]
    /\ ret = [t \in Threads |-> OK]
    /\ pre = [t \in Threads |-> NoPre]

\* ---------------------------------------------------------------------------
\* imx477_s_power
\* ---------------------------------------------------------------------------
\* mutex_lock; if (power_on == !!on) goto unlock_and_return
SPowerEnter(t, on) ==
    /\ Enter(t, "s_power", on)
    /\ IF power_on = on
       THEN Goto(t, "unlock") /\ SetRet(t, OK)
       ELSE Goto(t, IF on THEN "sp_get" ELSE "sp_put") /\ UNCHANGED ret
    /\ UNCHANGED <<dev, pm, wire>>

\* on: pm_runtime_get_sync; on failure pm_runtime_put_noidle and return the
\* error, else power_on = true
SPowerGet(t) ==
    /\ pc[t] = "sp_get"
    /\ \/ GetSyncOk /\ power_on' = TRUE /\ SetRet(t, OK)
       \/ GetSyncFail(t) /\ SetRet(t, EPOWER) /\ UNCHANGED power_on
    /\ Leave(t)
    /\ UNCHANGED <<cur_mode, long_exp_shift, ctrl, exposure_max, grabbed, flip_val, op, pre>>

\* off: pm_runtime_put; power_on = false
SPowerPut(t) ==
    /\ pc[t] = "sp_put"
    /\ LET p == pm_runtime_put([uc |-> usage_count, pend |-> request_pending], runtime_active)
       IN  usage_count' = p.uc /\ request_pending' = p.pend
    /\ power_on' = FALSE
    /\ SetRet(t, OK)
    /\ Leave(t)
    /\ UNCHANGED <<streaming, common_regs_written, cur_mode, long_exp_shift, ctrl,
                   exposure_max, grabbed, flip_val, hw, wire, op, pre>>

\* ---------------------------------------------------------------------------
\* imx477_set_ctrl and the control framework around it
\* ---------------------------------------------------------------------------
\* imx477_adjust_exposure_range for a VBLANK value v: the new EXPOSURE maximum
\* (__v4l2_ctrl_modify_range refuses an empty range and changes nothing)
AdjustedExposureMax(v, m, emax) ==
    LET new == supported_modes[m].height + v - IMX477_EXPOSURE_OFFSET
    IN  IF new >= IMX477_EXPOSURE_MIN THEN new ELSE emax

\* whether applying VBLANK = v moves the EXPOSURE value
ExposureMoves(d, v) ==
    Clamp(d.ctrl["EXPOSURE"], IMX477_EXPOSURE_MIN, AdjustedExposureMax(v, d.mode, d.emax))
        # d.ctrl["EXPOSURE"]

\* ctrl->val of every control as the switch of imx477_set_ctrl finds it: the
\* flips' new values, which a failed or refused set leaves behind, and the
\* current values c of the others
NewValues(c, fnew) == [id \in DOMAIN c |-> IF id \in DOMAIN fnew THEN fnew[id] ELSE c[id]]

\* the framework stores the value v about to be applied in ctrl->val
WithNew(fnew, id, v) == IF id \in DOMAIN fnew THEN [fnew EXCEPT ![id] = v] ELSE fnew

\* One call of imx477_set_ctrl for control id with new value v, on the
\* control state d = [ctrl, emax, shift, mode].
\* VBLANK first adjusts the EXPOSURE range; if that moves the EXPOSURE value
\* the framework applies EXPOSURE at once through a nested imx477_set_ctrl
\* (its result is dropped; the value is committed only if its write succeeded).
\* Then the switch issues the control's own writes, of which k succeed, and
\* the call ends in pm_runtime_put.
imx477_set_ctrl(t, d, id, v, nested_ok, k) ==
    LET emax == IF id = "VBLANK" THEN AdjustedExposureMax(v, d.mode, d.emax) ELSE d.emax
        enew == Clamp(d.ctrl["EXPOSURE"], IMX477_EXPOSURE_MIN, emax)
        nested == id = "VBLANK" /\ ExposureMoves(d, v)
        nent == IF nested
                THEN CtrlEntries(t, CtrlWrites("EXPOSURE", enew, d.ctrl, d.mode, d.shift),
                                 IF nested_ok THEN 1 ELSE 0)
                ELSE << >>
        c1 == IF nested /\ nested_ok THEN [d.ctrl EXCEPT !["EXPOSURE"] = enew] ELSE d.ctrl
        ws == CtrlWrites(id, v, NewValues(c1, d.fnew), d.mode, d.shift)
        kk == Min(k, Len(ws))
    IN  [ ctrl |-> c1,
          emax |-> emax,
          shift |-> ShiftAfter(id, v, d.mode, d.shift),
          entries |-> nent \o CtrlEntries(t, ws, kk),
          puts |-> IF nested THEN 2 ELSE 1,
          ok |-> kk = Len(ws) ]

\* A control application: kind "setup" is __v4l2_ctrl_handler_setup's call
\* (the current value, always applied); kind "set" is the framework's
\* set_ctrl (the value is clamped to the range, applied only if it differs
\* from the current value).
Task(kind, id, val) == [kind |-> kind, id |-> id, val |-> val]

TaskValue(task, d) ==
    IF task.kind = "setup" THEN d.ctrl[task.id]
    ELSE Clamp(task.val, CtrlMin(task.id, d.mode), CtrlMax(task.id, d.mode, d.emax))

\* the control state the device holds, and an empty run on it
CtrlState ==
    [ctrl |-> ctrl, emax |-> exposure_max, shift |-> long_exp_shift, mode |-> cur_mode,
     fnew |-> flip_val, entries |-> << >>, puts |-> 0, ok |-> TRUE, stop |-> FALSE]

\* an application that makes the new value current whatever imx477_set_ctrl
\* returned
ApplyTask_keep_new(t, a, task, o, abort) ==
    LET v == TaskValue(task, a)
        b == [a EXCEPT !.fnew = WithNew(a.fnew, task.id, v)]
    IN  IF a.stop THEN a
        ELSE IF task.kind = "set" /\ v = a.ctrl[task.id] THEN b
        ELSE LET r == imx477_set_ctrl(t, b, task.id, v, o.n, o.k)
             IN  [ctrl |-> [r.ctrl EXCEPT ![task.id] = v],
                  emax |-> r.emax,
                  shift |-> r.shift,
                  mode |-> a.mode,
                  fnew |-> b.fnew,
                  entries |-> a.entries \o r.entries,
                  puts |-> a.puts + r.puts,
                  ok |-> a.ok /\ r.ok,
                  stop |-> abort /\ ~r.ok]

\* One application within a run a.  o = [n, k] is what the bus does: whether
\* the nested EXPOSURE write succeeds and how many of the control's own
\* writes succeed.  The new value becomes current only if imx477_set_ctrl
\* returned 0; with abort set, a failure ends the run.
ApplyTask(t, a, task, o, abort) ==
    LET v == TaskValue(task, a)
        b == [a EXCEPT !.fnew = WithNew(a.fnew, task.id, v)]
    IN  IF a.stop THEN a
        ELSE IF task.kind = "set" /\ v = a.ctrl[task.id] THEN b
        ELSE LET r == imx477_set_ctrl(t, b, task.id, v, o.n, o.k)
             IN  [ctrl |-> IF r.ok THEN [r.ctrl EXCEPT ![task.id] = v] ELSE r.ctrl,
                  emax |-> r.emax,
                  shift |-> r.shift,
                  mode |-> a.mode,
                  fnew |-> b.fnew,
                  entries |-> a.entries \o r.entries,
                  puts |-> a.puts + r.puts,
                  ok |-> a.ok /\ r.ok,
                  stop |-> abort /\ ~r.ok]

\* the applications tasks[i..] in order
RECURSIVE RunTasks(_, _, _, _, _, _)
RunTasks(t, a, tasks, outs, abort, i) ==
    IF i > Len(tasks) THEN a
    ELSE RunTasks(t, ApplyTask(t, a, tasks[i], outs[i], abort), tasks, outs, abort, i + 1)

\* the device takes over the result of a run: values, writes, and the
\* pm_runtime_put at the end of every imx477_set_ctrl (plus more puts that
\* the caller makes on its way out)
CommitRun(a, more) ==
    /\ ctrl' = a.ctrl
    /\ exposure_max' = a.emax
    /\ long_exp_shift' = a.shift
    /\ flip_val' = a.fnew
    /\ wire' = wire \o a.entries
    /\ LET p == PutN(a.puts + more, [uc |-> usage_count, pend |-> request_pending], runtime_active)
       IN  usage_count' = p.uc /\ request_pending' = p.pend

\* what the bus may do to one application of control id: VBLANK has two
\* writes of its own and may have the nested EXPOSURE write, the others have one
Outcomes(id) ==
    IF id = "VBLANK" THEN [n : Acks, k : Succeeding(2)]
    ELSE [n : {TRUE}, k : IF runtime_active THEN {0, 2} ELSE {0}]

\* ... to application task on the run a: an application that is skipped uses
\* no bus, and only a VBLANK application that moves EXPOSURE has the nested write
TaskOutcomes(a, task) ==
    LET v == TaskValue(task, a)
    IN  IF task.kind = "set" /\ v = a.ctrl[task.id]
        THEN {[n |-> TRUE, k |-> 0]}
        ELSE IF task.id = "VBLANK" /\ ExposureMoves(a, v)
             THEN Outcomes(task.id)
             ELSE {[n |-> TRUE, k |-> o.k] : o \in Outcomes(task.id)}

\* v4l2_ctrl_s_ctrl from a caller: takes the handler lock, which
\* imx477_init_controls makes the device mutex, and stores the validated
\* value in ctrl->val; a grabbed control is then refused as busy
SCtrlEnter(t, id, val) ==
    /\ Enter(t, "s_ctrl", <<id, val>>)
    /\ flip_val' = WithNew(flip_val, id, TaskValue(Task("set", id, val), CtrlState))
    /\ IF grabbed /\ id \in {"HFLIP", "VFLIP"}
       THEN Goto(t, "unlock") /\ SetRet(t, EBUSY)
       ELSE Goto(t, "sc_apply") /\ SetRet(t, OK)
    /\ UNCHANGED <<streaming, power_on, common_regs_written, cur_mode, long_exp_shift, ctrl,
                   exposure_max, grabbed, pm, wire>>

\* set_ctrl -> try_or_set_cluster -> imx477_set_ctrl
SCtrlApply(t) ==
    /\ pc[t] = "sc_apply"
    /\ \E o \in TaskOutcomes(CtrlState, Task("set", op[t].arg[1], op[t].arg[2])) :
          LET a == RunTasks(t, CtrlState, << Task("set", op[t].arg[1], op[t].arg[2]) >>,
                            << o >>, TRUE, 1)
          IN  /\ CommitRun(a, 0)
              /\ SetRet(t, IF a.ok THEN OK ELSE EIO)
    /\ Leave(t)
    /\ UNCHANGED <<streaming, power_on, common_regs_written, cur_mode, grabbed,
                   hw, op, pre>>

\* ---------------------------------------------------------------------------
\* imx477_s_stream, __imx477_start_streaming, __imx477_stop_streaming
\* ---------------------------------------------------------------------------
\* an s_stream without the early return
StreamIsRedundant_never(cur, enable) == FALSE

\* if (imx477->streaming == enable): unlock and return 0
StreamIsRedundant(cur, enable) == cur = enable

\* mutex_lock; the redundant call returns at once
SStreamEnter(t, enable) ==
    /\ Enter(t, "s_stream", enable)
    /\ IF StreamIsRedundant(streaming, enable)
       THEN Goto(t, "unlock") /\ SetRet(t, OK)
       ELSE Goto(t, IF enable THEN "ss_get" ELSE "ss_stop") /\ UNCHANGED ret
    /\ UNCHANGED <<dev, pm, wire>>

\* enable: pm_runtime_get_sync; on failure pm_runtime_put_noidle, goto err_unlock
SStreamGet(t) ==
    /\ pc[t] = "ss_get"
    /\ \/ GetSyncOk /\ Goto(t, "ss_common") /\ UNCHANGED <<ret, mutex>>
       \/ GetSyncFail(t) /\ SetRet(t, EPOWER) /\ Leave(t)
    /\ UNCHANGED <<power_on, cur_mode, long_exp_shift, ctrl, exposure_max, grabbed,
                   flip_val, op, pre>>

\* a step of __imx477_start_streaming succeeded: on to the next
StartNext(t, l) == Goto(t, l) /\ UNCHANGED <<ret, mutex, usage_count, request_pending>>

\* a step failed with r: err_rpm_put (pm_runtime_put), err_unlock, return r
ErrRpmPut(t, r) ==
    /\ LET p == pm_runtime_put([uc |-> usage_count, pend |-> request_pending], runtime_active)
       IN  usage_count' = p.uc /\ request_pending' = p.pend
    /\ SetRet(t, r)
    /\ Leave(t)

\* a start that never writes the common program / that always writes it
NeedsCommon_never(flag) == FALSE

NeedsCommon_always(flag) == TRUE

\* if (!common_regs_written): the common program, then the extra program
NeedsCommon(flag) == ~flag

StartCommon(t) ==
    /\ pc[t] = "ss_common"
    /\ IF NeedsCommon(common_regs_written)
       THEN \E k \in Succeeding(CommonLen), j \in Succeeding(ExtraLen) :
              LET common == imx477_write_regs(t, "common", CommonLen, k)
                  extra == IF k = CommonLen
                           THEN imx477_write_regs(t, "extra", ExtraLen, j) ELSE << >>
                  good == k = CommonLen /\ j = ExtraLen
              IN  /\ (k < CommonLen => j = 0)
                  /\ wire' = wire \o common \o extra
                  /\ sensor_common' = (sensor_common \/ (good /\ runtime_active))
                  /\ IF good THEN StartNext(t, "ss_setflag") ELSE ErrRpmPut(t, EIO)
       ELSE StartNext(t, "ss_mode") /\ UNCHANGED <<wire, sensor_common>>
    /\ pre' = [pre EXCEPT ![t].common = common_regs_written]
    /\ UNCHANGED <<dev, runtime_active, op>>

\* imx477->common_regs_written = true
StartSetFlag(t) ==
    /\ pc[t] = "ss_setflag"
    /\ common_regs_written' = TRUE
    /\ Goto(t, "ss_mode")
    /\ UNCHANGED <<streaming, power_on, cur_mode, long_exp_shift, ctrl, exposure_max,
                   grabbed, flip_val, pm, mutex, wire, op, ret, pre>>

\* a failed mode program that takes the flag back
FlagAfterFailure_cleared(flag) == FALSE

\* "failed to set mode": return ret, common_regs_written as it is
FlagAfterFailure(flag) == flag

\* the current mode's reg_list
StartMode(t) ==
    /\ pc[t] = "ss_mode"
    /\ \E k \in Succeeding(ModeLen) :
          /\ wire' = wire \o imx477_write_regs(t, "mode", ModeLen, k)
          /\ IF k = ModeLen
             THEN StartNext(t, "ss_setup") /\ UNCHANGED common_regs_written
             ELSE /\ ErrRpmPut(t, EIO)
                  /\ common_regs_written' = FlagAfterFailure(common_regs_written)
    /\ UNCHANGED <<streaming, power_on, cur_mode, long_exp_shift, ctrl, exposure_max,
                   grabbed, flip_val, hw, op, pre>>

\* the bus during __v4l2_ctrl_handler_setup: every application before the
\* f-th succeeds, the f-th fails after kf writes (f = 0: none fails)
SetupOutcomes(n1, f, kf) ==
    [i \in 1..Len(CtrlOrder) |-> [n |-> (i # 1) \/ n1, k |-> IF i = f THEN kf ELSE 2]]

\* __v4l2_ctrl_handler_setup: every control's current value is applied in the
\* order the controls were created, up to the first failure
StartSetup(t) ==
    /\ pc[t] = "ss_setup"
    /\ \E f \in (IF runtime_active THEN 0..Len(CtrlOrder) ELSE {1}) :
       \E n1 \in (IF ExposureMoves(CtrlState, ctrl["VBLANK"]) THEN Acks ELSE {runtime_active}),
          kf \in (IF f = 1 THEN Succeeding(1) ELSE {0}) :
          LET tasks == [i \in 1..Len(CtrlOrder) |-> Task("setup", CtrlOrder[i], 0)]
              a == RunTasks(t, CtrlState, tasks, SetupOutcomes(n1, f, kf), TRUE, 1)
          IN  /\ CommitRun(a, IF a.ok THEN 0 ELSE 1)
              /\ IF a.ok THEN Goto(t, "ss_enable") /\ UNCHANGED <<ret, mutex>>
                         ELSE SetRet(t, EIO) /\ Leave(t)
    /\ UNCHANGED <<streaming, power_on, common_regs_written, cur_mode, grabbed,
                   hw, op, pre>>

\* "set stream on register"
StartEnable(t) ==
    /\ pc[t] = "ss_enable"
    /\ \E ok \in Acks :
          /\ wire' = Append(wire, Entry(t, "select", IMX477_REG_MODE_SELECT,
                                        IMX477_MODE_STREAMING, ok))
          /\ IF ok THEN StartNext(t, "ss_fin") ELSE ErrRpmPut(t, EIO)
    /\ UNCHANGED <<dev, hw, op, pre>>

\* a stop that leaves through the unlock when its standby write failed
AfterStandby_abort(ok) == IF ok THEN "ss_fin" ELSE "unlock"

\* __imx477_stop_streaming returns nothing: whatever became of its write,
\* imx477_s_stream goes on
AfterStandby(ok) == "ss_fin"

\* disable: __imx477_stop_streaming writes MODE_STANDBY (a failure is only
\* logged), then pm_runtime_put
SStreamStop(t) ==
    /\ pc[t] = "ss_stop"
    /\ \E ok \in Acks :
          /\ wire' = Append(wire, Entry(t, "select", IMX477_REG_MODE_SELECT,
                                        IMX477_MODE_STANDBY, ok))
          /\ Goto(t, AfterStandby(ok))
    /\ LET p == pm_runtime_put([uc |-> usage_count, pend |-> request_pending], runtime_active)
       IN  usage_count' = p.uc /\ request_pending' = p.pend
    /\ UNCHANGED <<dev, hw, mutex, op, ret, pre>>

\* imx477->streaming = enable; __v4l2_ctrl_grab(vflip / hflip, enable)
SStreamFinish(t) ==
    /\ pc[t] = "ss_fin"
    /\ streaming' = op[t].arg
    /\ grabbed' = op[t].arg
    /\ SetRet(t, OK)
    /\ Leave(t)
    /\ UNCHANGED <<power_on, common_regs_written, cur_mode, long_exp_shift, ctrl,
                   exposure_max, flip_val, pm, wire, op, pre>>

\* ---------------------------------------------------------------------------
\* imx477_set_fmt, imx477_get_fmt, im477_g_frame_interval, imx477_open
\* ---------------------------------------------------------------------------
Fmt(which, code, width, height) ==
    [which |-> which, code |-> code, width |-> width, height |-> height]

\* the requests callers make
FmtRequests ==
    { Fmt("ACTIVE", SRGGB10, 1920, 1088),
      Fmt("TRY", SRGGB10, 4056, 3040) }

\* the (code, width, height) of a catalog mode, as set_fmt and get_fmt report it
FmtOf(m) ==
    [code |-> supported_modes[m].bus_fmt, width |-> supported_modes[m].width,
     height |-> supported_modes[m].height]

\* the file handle's try format: imx477_open sets it to supported_modes[0]
\* and no operation of the driver stores into it
TryFormat == FmtOf(1)

\* what imx477_set_fmt leaves in fmt->format: the chosen mode's format, over
\* which a TRY request then copies the try format
SetFmtResult(fmt, mode) == IF fmt.which = "TRY" THEN TryFormat ELSE FmtOf(mode)

\* mutex_lock; mode = find_best_fit; fmt->format is filled in; a TRY request
\* and an unchanged mode go straight to the unlock.  The operation keeps the
\* request (req), the local variable mode and the format it returns (out).
SetFmtEnter(t, fmt) ==
    /\ LET mode == imx477_find_best_fit(fmt)
       IN  /\ Enter(t, "set_fmt", [req |-> fmt, mode |-> mode,
                                   out |-> SetFmtResult(fmt, mode)])
           /\ IF fmt.which = "ACTIVE" /\ cur_mode # mode
              THEN Goto(t, "sf_limits")
              ELSE Goto(t, "unlock")
    /\ SetRet(t, OK)
    /\ UNCHANGED <<dev, pm, wire>>

\* cur_mode = mode; imx477_set_framing_limits: no long exposure multiplier,
\* then the new VBLANK range (which re-applies a value it had to clamp), the
\* default VBLANK, the new HBLANK range and the minimum HBLANK; no result is
\* looked at
SetFmtLimits(t) ==
    /\ pc[t] = "sf_limits"
    /\ LET m == op[t].arg.mode
           d == [CtrlState EXCEPT !.mode = m, !.shift = 0]
           tasks == << Task("set", "VBLANK", ctrl["VBLANK"]),
                       Task("set", "VBLANK", VblankDefault(m)),
                       Task("set", "HBLANK", ctrl["HBLANK"]),
                       Task("set", "HBLANK", HblankMin(m)) >>
       IN  \E o1 \in TaskOutcomes(d, tasks[1]) :
             LET a1 == ApplyTask(t, d, tasks[1], o1, FALSE)
             IN  \E o2 \in TaskOutcomes(a1, tasks[2]) :
                   LET a2 == ApplyTask(t, a1, tasks[2], o2, FALSE)
                   IN  \E o3 \in TaskOutcomes(a2, tasks[3]) :
                         LET a3 == ApplyTask(t, a2, tasks[3], o3, FALSE)
                         IN  \E o4 \in TaskOutcomes(a3, tasks[4]) :
                               /\ cur_mode' = m
                               /\ CommitRun(ApplyTask(t, a3, tasks[4], o4, FALSE), 0)
    /\ Leave(t)
    /\ UNCHANGED <<streaming, power_on, common_regs_written, grabbed,
                   hw, op, ret, pre>>

\* the three read-only operations: lock, read, unlock
ReadOnly(t, name) ==
    /\ Enter(t, name, 0)
    /\ SetRet(t, OK)
    /\ Goto(t, "unlock")
    /\ UNCHANGED <<dev, pm, wire>>

GetFmt(t) == ReadOnly(t, "get_fmt")

GFrameInterval(t) == ReadOnly(t, "g_frame_interval")

Open(t) == ReadOnly(t, "open")

\* ---------------------------------------------------------------------------
\* Specification
\* ---------------------------------------------------------------------------
\* the control values callers ask for (the framework clamps them to the range)
CtrlRequests ==
    { <<"HFLIP", 1>> }

Next ==
    \/ \E t \in Threads, on \in BOOLEAN : SPowerEnter(t, on)
    \/ \E t \in Threads : SPowerGet(t)
    \/ \E t \in Threads : SPowerPut(t)
    \/ \E t \in Threads, enable \in BOOLEAN : SStreamEnter(t, enable)
    \/ \E t \in Threads : SStreamGet(t)
    \/ \E t \in Threads : StartCommon(t)
    \/ \E t \in Threads : StartSetFlag(t)
    \/ \E t \in Threads : StartMode(t)
    \/ \E t \in Threads : StartSetup(t)
    \/ \E t \in Threads : StartEnable(t)
    \/ \E t \in Threads : SStreamStop(t)
    \/ \E t \in Threads : SStreamFinish(t)
    \/ \E t \in Threads, rq \in CtrlRequests : SCtrlEnter(t, rq[1], rq[2])
    \/ \E t \in Threads : SCtrlApply(t)
    \/ \E t \in Threads, fmt \in FmtRequests : SetFmtEnter(t, fmt)
    \/ \E t \in Threads : SetFmtLimits(t)
    \/ \E t \in Threads : GetFmt(t)
    \/ \E t \in Threads : GFrameInterval(t)
    \/ \E t \in Threads : Open(t)
    \/ \E t \in Threads : Unlock(t)
    \/ \E t \in Threads : Return(t)
    \/ PmWork

Spec == Init /\ [][Next]_vars

\* ---------------------------------------------------------------------------
\* The functions of the mode and timing engine, each called on its own
\* ---------------------------------------------------------------------------
\* another media bus code, which no mode of the catalog has
SBGGR12 == "MEDIA_BUS_FMT_SBGGR12_1X12"

\* the sizes a format request may carry (width and height are u32 fields that
\* the caller fills in freely): catalog sizes, sizes between them, the
\* extremes
FitWidths == {0, 1920, 3840, 4056, IntMax}

FitHeights == {0, 1080, 1088, 2160, 2492, 3040, IntMax}

FitRequests ==
    { Fmt("ACTIVE", code, w, h) : code \in {SRGGB10, SBGGR12}, w \in FitWidths, h \in FitHeights }

\* frame intervals: those of the catalog, a long one (the quotient exceeds
\* IMX477_FRAME_LENGTH_MAX) and short ones (the quotient is below the height)
FrameIntervals ==
    { [numerator |-> n, denominator |-> d] : n \in {1, 2, 100}, d \in {1, 50, 1000, 2000, 6000} }

\* totals of lines asked of imx477_set_frame_length: around each power of two
\* times IMX477_FRAME_LENGTH_MAX
FrameLengths ==
    {0, 1, 3258, IMX477_FRAME_LENGTH_MAX, IMX477_FRAME_LENGTH_MAX + 1,
     2 * IMX477_FRAME_LENGTH_MAX + 1, 2 * IMX477_FRAME_LENGTH_MAX + 2,
     Pow2(IMX477_LONG_EXP_SHIFT_MAX) * IMX477_FRAME_LENGTH_MAX,
     Pow2(IMX477_LONG_EXP_SHIFT_MAX) * IMX477_FRAME_LENGTH_MAX + Pow2(IMX477_LONG_EXP_SHIFT_MAX),
     IntMax}

Call(name, arg) == [name |-> name, arg |-> arg]

\* control values asked of v4l2_ctrl_s_ctrl: HBLANK at the ends of its range
\* and where width + HBLANK passes 16 bits, every entry of the test pattern menu
FnCtrlRequests ==
    { <<"HBLANK", v>> : v \in {0, Pow2(16) - 1 - supported_modes[1].width,
                               Pow2(16) - supported_modes[1].width, IMX477_LINE_LENGTH_MAX} }
    \cup { <<"TEST_PATTERN", i>> : i \in DOMAIN imx477_test_pattern_val }
    \cup { <<"EXPOSURE", IMX477_EXPOSURE_DEFAULT - 1>>, <<"ANALOGUE_GAIN", IMX477_ANA_GAIN_MAX>> }

\* values to write: one that fits a byte, and 4056 + 65520, which takes 17 bits
WriteValues == {255, supported_modes[1].width + IMX477_LINE_LENGTH_MAX}

FnCalls ==
    { Call("find_best_fit", fmt) : fmt \in FitRequests }
    \cup { Call("get_frame_length", <<m, f>>) : m \in 1..cfg_num, f \in FrameIntervals }
    \cup { Call("set_frame_length", r) : r \in FrameLengths }
    \cup { Call("s_ctrl", rq) : rq \in FnCtrlRequests }
    \cup { Call("write_reg", <<len, val>>) : len \in {1, 2, 3, 5}, val \in WriteValues }
    \cup { Call("read_reg", len) : len \in {1, 2, 4, 5} }

\* the control state after probe, and after a set_fmt to mode m that followed
\* s_power(1) and whose writes all succeeded (FnInit lets a successful
\* set of the test pattern to PN9 follow)
ProbedCtrlState ==
    [ctrl |-> CtrlDefaults,
     emax |-> supported_modes[1].height + VblankDefault(1) - IMX477_EXPOSURE_OFFSET,
     shift |-> 0, mode |-> 1, fnew |-> FlipsOf(CtrlDefaults), entries |-> << >>, puts |-> 0,
     ok |-> TRUE, stop |-> FALSE]

FormattedCtrlState(m) ==
    IF m = ProbedCtrlState.mode THEN ProbedCtrlState
    ELSE RunTasks(1, [ProbedCtrlState EXCEPT !.mode = m],
                  << Task("set", "VBLANK", ProbedCtrlState.ctrl["VBLANK"]),
                     Task("set", "VBLANK", VblankDefault(m)),
                     Task("set", "HBLANK", ProbedCtrlState.ctrl["HBLANK"]),
                     Task("set", "HBLANK", HblankMin(m)) >>,
                  [i \in 1..4 |-> [n |-> TRUE, k |-> 2]], FALSE, 1)

\* a probed device that s_power(1) has resumed, and one caller about to call
\* one function
FnInit ==
    /\ streaming = FALSE
    /\ power_on = TRUE
    /\ common_regs_written = FALSE
    /\ \E m \in 1..cfg_num, tp \in {0, 4} :
          LET d == FormattedCtrlState(m)
          IN  /\ cur_mode = m
              /\ long_exp_shift = d.shift
              /\ ctrl = [d.ctrl EXCEPT !["TEST_PATTERN"] = tp]
              /\ exposure_max = d.emax
              /\ usage_count =
                     PutN(d.puts + (IF tp = d.ctrl["TEST_PATTERN"] THEN 0 ELSE 1),
                          [uc |-> PutN(Len(ProbeCtrlApplications), [uc |-> 0, pend |-> FALSE],
                                       FALSE).uc + 1,
                           pend |-> TRUE], TRUE).uc
    /\ grabbed = FALSE
    /\ flip_val = FlipsOf(CtrlDefaults)
    /\ mutex = 1
    /\ runtime_active = TRUE
    /\ sensor_common = FALSE
    /\ request_pending = TRUE
    /\ wire = <<>>
    /\ \E c \in FnCalls : op = [t \in Threads |-> IF t = 1 THEN c ELSE NoOp]
    /\ pc = [t \in Threads |-> IF t = 1 THEN "call" ELSE "idle"]
    /\ ret = [t \in Threads |-> OK]
    /\ pre = [t \in Threads |-> NoPre]

\* mode = imx477_find_best_fit(imx477, fmt): ret holds the index of the mode
FnFindBestFit(t) ==
    /\ pc[t] = "call" /\ op[t].name = "find_best_fit"
    /\ ret' = [ret EXCEPT ![t] = imx477_find_best_fit(op[t].arg)]
    /\ Goto(t, "result")
    /\ UNCHANGED <<dev, pm, mutex, wire, op, pre>>

\* imx477_get_frame_length(mode, timeperframe)
FnGetFrameLength(t) ==
    /\ pc[t] = "call" /\ op[t].name = "get_frame_length"
    /\ ret' = [ret EXCEPT ![t] =
                  imx477_get_frame_length(supported_modes[op[t].arg[1]], op[t].arg[2])]
    /\ Goto(t, "result")
    /\ UNCHANGED <<dev, pm, mutex, wire, op, pre>>

\* imx477_set_frame_length(imx477, val), k of its two writes succeeding
FnSetFrameLength(t) ==
    /\ pc[t] = "call" /\ op[t].name = "set_frame_length"
    /\ LET r == imx477_set_frame_length(op[t].arg)
       IN  /\ long_exp_shift' = r.shift
           /\ \E k \in Succeeding(Len(r.writes)) :
                 /\ wire' = wire \o CtrlEntries(t, r.writes, k)
                 /\ SetRet(t, IF k = Len(r.writes) THEN OK ELSE EIO)
    /\ Goto(t, "result")
    /\ UNCHANGED <<streaming, power_on, common_regs_written, cur_mode, ctrl, exposure_max,
                   grabbed, flip_val, pm, mutex, op, pre>>

\* v4l2_ctrl_s_ctrl(ctrl, val) -> imx477_set_ctrl, as in SCtrlApply
FnSetCtrl(t) ==
    /\ pc[t] = "call" /\ op[t].name = "s_ctrl"
    /\ \E o \in TaskOutcomes(CtrlState, Task("set", op[t].arg[1], op[t].arg[2])) :
          LET a == RunTasks(t, CtrlState, << Task("set", op[t].arg[1], op[t].arg[2]) >>,
                            << o >>, TRUE, 1)
          IN  /\ CommitRun(a, 0)
              /\ SetRet(t, IF a.ok THEN OK ELSE EIO)
    /\ Goto(t, "result")
    /\ UNCHANGED <<streaming, power_on, common_regs_written, cur_mode, grabbed,
                   hw, mutex, op, pre>>

\* imx477_write_reg(imx477, IMX477_REG_LINE_LENGTH, len, val)
FnWriteReg(t) ==
    /\ pc[t] = "call" /\ op[t].name = "write_reg"
    /\ \E ack \in Acks :
          LET r == imx477_write_reg(t, IMX477_REG_LINE_LENGTH, op[t].arg[1], op[t].arg[2], ack)
          IN  wire' = wire \o r.entries /\ SetRet(t, r.ret)
    /\ Goto(t, "result")
    /\ UNCHANGED <<dev, pm, mutex, op, pre>>

\* imx477_read_reg(imx477, IMX477_REG_CHIP_ID, len, &val)
FnReadReg(t) ==
    /\ pc[t] = "call" /\ op[t].name = "read_reg"
    /\ \E ack \in Acks :
          LET r == imx477_read_reg(t, IMX477_REG_CHIP_ID, op[t].arg, ack)
          IN  wire' = wire \o r.entries /\ SetRet(t, r.ret)
    /\ Goto(t, "result")
    /\ UNCHANGED <<dev, pm, mutex, op, pre>>

FnNext ==
    \/ \E t \in Threads : FnFindBestFit(t)
    \/ \E t \in Threads : FnGetFrameLength(t)
    \/ \E t \in Threads : FnSetFrameLength(t)
    \/ \E t \in Threads : FnSetCtrl(t)
    \/ \E t \in Threads : FnWriteReg(t)
    \/ \E t \in Threads : FnReadReg(t)

FnSpec == FnInit /\ [][FnNext]_vars

\* ---------------------------------------------------------------------------
\* Properties
\* ---------------------------------------------------------------------------
\* the register writes of thread t's operation, in bus order
WritesOf(t) == SelectSeq(wire, LAMBDA e : e.t = t)

\* those of one phase
PhaseOf(W, ph) == SelectSeq(W, LAMBDA e : e.ph = ph)

PhaseRank(ph) ==
    CASE ph = "common" -> 1
      [] ph = "extra" -> 2
      [] ph = "mode" -> 3
      [] ph = "ctrl" -> 4
      [] ph = "select" -> 5

\* a register program of len rows written completely, in order, successfully
WholeProgram(W, ph, len) ==
    LET P == PhaseOf(W, ph)
    IN  Len(P) = len /\ \A i \in 1..len : P[i].reg = i /\ P[i].ok

\* the registers a replay of all controls writes
ReplayRegisters ==
    { IMX477_REG_FRAME_LENGTH, IMX477_LONG_EXP_SHIFT_REG, IMX477_REG_LINE_LENGTH,
      IMX477_REG_EXPOSURE, IMX477_REG_ANALOG_GAIN, IMX477_REG_DIGITAL_GAIN,
      IMX477_REG_ORIENTATION, IMX477_REG_TEST_PATTERN, IMX477_REG_TEST_PATTERN_R,
      IMX477_REG_TEST_PATTERN_GR, IMX477_REG_TEST_PATTERN_B, IMX477_REG_TEST_PATTERN_GB }

\* every control was applied: each register of the replay was written
\* successfully, at least one write per control
WholeReplay(W) ==
    LET C == PhaseOf(W, "ctrl")
    IN  /\ Len(C) >= Len(CtrlOrder) + 1
        /\ \A r \in ReplayRegisters : \E i \in 1..Len(C) : C[i].reg = r /\ C[i].ok

\* W[i] is the EXPOSURE write that the framework nests in the application of
\* VBLANK (its result is dropped by __v4l2_ctrl_modify_range)
IsNestedExposure(W, i) ==
    /\ W[i].ph = "ctrl" /\ W[i].reg = IMX477_REG_EXPOSURE
    /\ i < Len(W) /\ W[i + 1].reg = IMX477_REG_FRAME_LENGTH

\* thread t has returned from operation name
Returned(t, name) == pc[t] = "done" /\ op[t].name = name

\* ... from a start of streaming that was not redundant
StartReturned(t) == Returned(t, "s_stream") /\ op[t].arg /\ ~pre[t].streaming

StreamOn(t) == Entry(t, "select", IMX477_REG_MODE_SELECT, IMX477_MODE_STREAMING, TRUE)

\* C1: a successful start of streaming has written, in this order: the whole
\* common program and the extra program if common_regs_written was read
\* false; the whole program of the current mode; the replay of all controls;
\* and last, once, MODE_SELECT = streaming.  Every write before that one
\* succeeded, but for a nested EXPOSURE write whose failure the control
\* framework drops.
C1_StartOrder ==
    \A t \in Threads :
        StartReturned(t) /\ ret[t] = OK =>
            LET W == WritesOf(t)
            IN  /\ \A i \in 1..Len(W), j \in 1..Len(W) :
                       i < j => PhaseRank(W[i].ph) <= PhaseRank(W[j].ph)
                /\ ~pre[t].common => /\ WholeProgram(W, "common", CommonLen)
                                     /\ WholeProgram(W, "extra", ExtraLen)
                /\ WholeProgram(W, "mode", ModeLen)
                /\ WholeReplay(W)
                /\ PhaseOf(W, "select") = << StreamOn(t) >>
                /\ W[Len(W)] = StreamOn(t)
                /\ \A i \in 1..Len(W) : W[i].ok \/ IsNestedExposure(W, i)

\* a first start has returned success after writing the common program
C1_Witness ==
    \E t \in Threads :
        /\ StartReturned(t) /\ ret[t] = OK /\ ~pre[t].common
        /\ Len(PhaseOf(WritesOf(t), "common")) = CommonLen

\* C2: a start of streaming in which a write of any step failed (the nested
\* EXPOSURE write aside) returns an error; the failed write is the last one
\* issued, MODE_SELECT = streaming was not written successfully, and
\* streaming is false at the return.
C2_FailedStart ==
    \A t \in Threads :
        StartReturned(t) =>
            LET W == WritesOf(t)
            IN  /\ \A i \in 1..Len(W) :
                       ~W[i].ok /\ ~IsNestedExposure(W, i) =>
                           ret[t] \in {EIO, EPOWER} /\ i = Len(W)
                /\ ret[t] = EIO => W # << >> /\ ~W[Len(W)].ok
                /\ ret[t] # OK => ~streaming /\ (\A i \in 1..Len(W) : W[i] # StreamOn(t))

\* a start has returned EIO after a failed write in the control replay
C2_Witness ==
    \E t \in Threads :
        /\ StartReturned(t) /\ ret[t] = EIO /\ ~streaming
        /\ LET W == WritesOf(t) IN W # << >> /\ W[Len(W)].ph = "ctrl" /\ ~W[Len(W)].ok

\* C3: a redundant s_stream call (enable equal to streaming at entry) goes
\* straight to the unlock with result 0, and neither that step nor the unlock
\* changes the device state, the usage count or the bus log.
C3_RedundantNoOp ==
    [][\A t \in Threads :
          /\ (pc[t] = "idle" /\ pc'[t] # "idle" /\ op'[t].name = "s_stream"
                 /\ op'[t].arg = streaming)
               => /\ pc'[t] = "unlock" /\ ret'[t] = OK
                  /\ UNCHANGED <<dev, pm, wire>>
          /\ (pc[t] = "unlock" /\ pc'[t] = "done")
               => UNCHANGED <<dev, pm, wire, ret>>]_vars

\* a start on a streaming device has returned, with no write of its own
C3_Witness ==
    \E t \in Threads :
        /\ Returned(t, "s_stream") /\ op[t].arg /\ pre[t].streaming
        /\ streaming /\ ret[t] = OK /\ WritesOf(t) = << >>

\* C4, as the specification states it: streaming implies that the sensor is
\* powered.
C4_StreamingImpliesPowered == streaming => runtime_active

\* C5, as the specification states it: common_regs_written implies that the
\* sensor holds the common and extra programs, written since it last lost
\* power.
C5_FlagImpliesProgrammed == common_regs_written => sensor_common

\* C6: a start that reads common_regs_written true writes nothing of the
\* common or extra program, and if it succeeds it has written the whole mode
\* program and replayed every control.
C6_RestartSkipsCommon ==
    \A t \in Threads :
        op[t].name = "s_stream" /\ pre[t].common =>
            LET W == WritesOf(t)
            IN  /\ PhaseOf(W, "common") = << >>
                /\ PhaseOf(W, "extra") = << >>
                /\ StartReturned(t) /\ ret[t] = OK =>
                       WholeProgram(W, "mode", ModeLen) /\ WholeReplay(W)

\* a restart on a sensor that kept its power and its common program has
\* returned success
C6_Witness ==
    \E t \in Threads :
        /\ StartReturned(t) /\ ret[t] = OK /\ pre[t].common
        /\ runtime_active /\ sensor_common /\ streaming

\* C7: common_regs_written becomes false only in a step in which the sensor
\* loses power, becomes true only in the step of __imx477_start_streaming
\* that follows the complete and successful common and extra programs, and
\* is left as it is by a power-on, whether it succeeds or fails.
C7_FlagWriters ==
    [][/\ (common_regs_written /\ ~common_regs_written')
            => runtime_active /\ ~runtime_active'
       /\ (~common_regs_written /\ common_regs_written')
            => \E t \in Threads :
                  /\ pc[t] = "ss_setflag" /\ pc'[t] = "ss_mode"
                  /\ WholeProgram(WritesOf(t), "common", CommonLen)
                  /\ WholeProgram(WritesOf(t), "extra", ExtraLen)
       /\ (~runtime_active /\ runtime_active')
            => common_regs_written' = common_regs_written
       /\ (\E t \in Threads : ret[t] # EPOWER /\ ret'[t] = EPOWER)
            => common_regs_written' = common_regs_written]_vars

\* the flag was set by a start that is now past the common program
C7_Witness ==
    \E t \in Threads :
        /\ pc[t] = "ss_mode" /\ ~pre[t].common /\ common_regs_written
        /\ WholeProgram(WritesOf(t), "common", CommonLen)

\* C8, as the specification states it: when an operation has returned the
\* mutex is not held by the caller, and streaming is the requested value
\* after a successful s_stream and the value at entry otherwise.
C8_ReturnState ==
    \A t \in Threads :
        pc[t] = "done" =>
            /\ mutex # t
            /\ streaming = (IF op[t].name = "s_stream" /\ ret[t] = OK
                            THEN op[t].arg ELSE pre[t].streaming)

\* a thread is inside an operation, between mutex_lock and mutex_unlock
InCriticalSection(t) == pc[t] \notin {"idle", "done"}

\* C9: at most one caller is inside an operation (set_fmt, a control
\* application, s_stream, s_power, the getters), that caller owns the mutex,
\* and the writes of one operation are not interleaved with another's.
C9_MutualExclusion ==
    /\ \A t \in Threads, u \in Threads :
           InCriticalSection(t) /\ InCriticalSection(u) => t = u
    /\ \A t \in Threads : InCriticalSection(t) => mutex = t
    /\ \A i \in 1..Len(wire), j \in 1..Len(wire), k \in 1..Len(wire) :
           i < j /\ j < k /\ wire[i].t = wire[k].t => wire[j].t = wire[i].t
    /\ \A i \in 1..Len(wire) : InCriticalSection(wire[i].t) \/ pc[wire[i].t] = "done"

\* one caller is in the middle of start_streaming's writes, the mutex is
\* taken, and the other callers are outside
C9_Witness ==
    \E t \in Threads :
        /\ pc[t] = "ss_setup" /\ mutex = t /\ WritesOf(t) # << >>
        /\ \A u \in Threads \ {t} : pc[u] = "idle"

\* the fields of struct imx477 that the specification calls DeviceState
DeviceState == <<cur_mode, streaming, power_on, common_regs_written, long_exp_shift, ctrl>>

\* thread t takes a step of its operation
Acting(t) == pc'[t] # pc[t]

\* the runtime-PM worker runs imx477_suspend: no caller moves, the sensor
\* loses power, and of DeviceState only common_regs_written changes, to false
SuspendStep ==
    /\ \A t \in Threads : ~Acting(t)
    /\ runtime_active /\ ~runtime_active'
    /\ ~common_regs_written'
    /\ UNCHANGED <<cur_mode, streaming, power_on, long_exp_shift, ctrl>>

\* C10, as the specification states it: every step that changes DeviceState
\* is a step of the thread that holds the mutex.
C10_AllUnderMutex ==
    [][DeviceState' # DeviceState => \E t \in Threads : mutex = t /\ Acting(t)]_vars

\* C10, amended: every step that changes DeviceState is a step of the thread
\* that holds the mutex (the clearing of streaming by a failed resume
\* included), or it is the runtime-PM worker's suspend, which clears
\* common_regs_written without taking the mutex.
C10_UnderMutexOrSuspend ==
    [][DeviceState' # DeviceState =>
          \/ \E t \in Threads : mutex = t /\ Acting(t)
          \/ SuspendStep]_vars

\* a start has set streaming under the mutex and returned, and the worker
\* has since suspended the sensor and cleared common_regs_written
C10_Witness ==
    \E t \in Threads :
        /\ StartReturned(t) /\ ret[t] = OK /\ ~pre[t].common
        /\ streaming /\ ~runtime_active /\ ~common_regs_written

\* ---------------------------------------------------------------------------
\* One caller, with format and control requests that move the modes and the
\* VBLANK / EXPOSURE values over their ranges
\* ---------------------------------------------------------------------------
\* format requests: the 1080p mode (nearest to 1920x1088), the full mode, a
\* TRY request, and a media bus code that no mode has
CtlFmtRequests ==
    { Fmt("ACTIVE", SRGGB10, 1920, 1088),
      Fmt("ACTIVE", SRGGB10, 4056, 3040),
      Fmt("TRY", SRGGB10, 1920, 1080),
      Fmt("ACTIVE", SBGGR12, 1920, 1080) }

\* control requests (the framework clamps each to the control's range): the
\* default VBLANK of the full mode, the longest VBLANK, the longest EXPOSURE
CtlCtrlRequests ==
    { <<"VBLANK", 218>>, <<"VBLANK", Pow2(23)>>, <<"EXPOSURE", Pow2(23)>> }

CtlNext ==
    \/ \E enable \in BOOLEAN : SStreamEnter(1, enable)
    \/ SStreamGet(1)
    \/ StartCommon(1)
    \/ StartSetFlag(1)
    \/ StartMode(1)
    \/ StartSetup(1)
    \/ StartEnable(1)
    \/ SStreamStop(1)
    \/ SStreamFinish(1)
    \/ \E rq \in CtlCtrlRequests : SCtrlEnter(1, rq[1], rq[2])
    \/ SCtrlApply(1)
    \/ \E fmt \in CtlFmtRequests : SetFmtEnter(1, fmt)
    \/ SetFmtLimits(1)
    \/ Unlock(1)
    \/ Return(1)
    \/ PmWork

CtlSpec == Init /\ [][CtlNext]_vars

\* the catalog modes that have the request's media bus code
Matching(f) == {i \in 1..cfg_num : supported_modes[i].bus_fmt = f.code}

\* mode i is no farther from request f than mode j, by
\* |width - f.width| + |height - f.height| in exact arithmetic (the sums are
\* compared through differences, which stay within the integers of the
\* model checker)
NoFarther(i, j, f) ==
    Abs(supported_modes[i].width - f.width) - Abs(supported_modes[j].width - f.width)
        <= Abs(supported_modes[j].height - f.height) - Abs(supported_modes[i].height - f.height)

\* i is the matching mode of least distance, and the first such in the catalog
IsBestFit(i, f) ==
    /\ i \in Matching(f)
    /\ \A j \in Matching(f) : NoFarther(i, j, f) /\ (j < i => ~NoFarther(j, i, f))

\* thread t has the result of a call of function name
HasResult(t, name) == pc[t] = "result" /\ op[t].name = name

\* C11, as the specification states it: for a request whose code some mode
\* of the catalog has, imx477_find_best_fit returns the matching mode of
\* least distance |width - w| + |height - h|, the first of them in catalog
\* order.
C11_BestFit ==
    \A t \in Threads :
        HasResult(t, "find_best_fit") /\ Matching(op[t].arg) # {}
            => IsBestFit(ret[t], op[t].arg)

\* thread t is inside (or has returned from) a set_fmt whose request carries
\* a media bus code that no mode of the catalog has
UnsupportedSetFmt(t) == op[t].name = "set_fmt" /\ Matching(op[t].arg.req) = {}

C13_SetFormat ==
    [][\A t \in Threads :
          /\ (pc[t] = "idle" /\ pc'[t] # "idle" /\ op'[t].name = "set_fmt") =>
                LET req == op'[t].arg.req
                    m == imx477_find_best_fit(req)
                IN  /\ op'[t].arg.out = FmtOf(m)
                    /\ (req.which = "ACTIVE" /\ m # cur_mode) => pc'[t] = "sf_limits"
                    /\ (req.which = "ACTIVE" /\ m = cur_mode) =>
                           pc'[t] = "unlock" /\ UNCHANGED <<dev, wire>>
          /\ (pc[t] = "sf_limits" /\ pc'[t] # "sf_limits") =>
                cur_mode' = imx477_find_best_fit(op[t].arg.req)
      ]_vars

\* thread t takes the step that recomputes the framing limits for a new mode
LimitsStep(t) == pc[t] = "sf_limits" /\ pc'[t] # "sf_limits"

\* C14: once set_fmt has changed the mode to M, VBLANK ranges over
\* [frame_length_min(M) - height, 128 * MAX_FRAME_LENGTH - height] and holds
\* frame_length_default(M) - height, HBLANK ranges over
\* [line_length_pix - width, MAX_LINE_LENGTH] and holds
\* line_length_pix - width.
C14_FramingLimits ==
    [][\A t \in Threads :
          LimitsStep(t) =>
            LET M == supported_modes[cur_mode']
            IN  /\ CtrlMin("VBLANK", cur_mode') = frm_length_min[cur_mode'] - M.height
                /\ CtrlMax("VBLANK", cur_mode', exposure_max')
                       = Pow2(IMX477_LONG_EXP_SHIFT_MAX) * IMX477_FRAME_LENGTH_MAX - M.height
                /\ ctrl'["VBLANK"] = frm_length_default[cur_mode'] - M.height
                /\ CtrlMin("HBLANK", cur_mode') = M.line_length_pix - M.width
                /\ CtrlMax("HBLANK", cur_mode', exposure_max') = IMX477_LINE_LENGTH_MAX
                /\ ctrl'["HBLANK"] = M.line_length_pix - M.width
      ]_vars

RECURSIVE GCD(_, _)
GCD(a, b) == IF b = 0 THEN a ELSE GCD(b, a % b)

\* floor(n * R / D) by long division: the fraction n / D in lowest terms,
\* the whole part of R / D times the numerator, and the numerator's share of
\* the remainder
FloorOfProduct(n, R, D) ==
    LET g == GCD(n, D)
        n1 == n \div g
        D1 == D \div g
    IN  n1 * (R \div D1) + (n1 * (R % D1)) \div D1

\* C15: imx477_get_frame_length(M, n/d) is floor(n * PIXEL_RATE /
\* (d * line_length_pix)), capped at IMX477_FRAME_LENGTH_MAX and then raised
\* to the height of M; it always returns a value, and for the max_fps and
\* the timeperframe_default of a catalog mode the value lies between the
\* mode's height and IMX477_FRAME_LENGTH_MAX.
C15_FrameLength ==
    \A t \in Threads :
        HasResult(t, "get_frame_length") =>
            LET M == supported_modes[op[t].arg[1]]
                f == op[t].arg[2]
                raw == FloorOfProduct(f.numerator, IMX477_PIXEL_RATE,
                                      f.denominator * M.line_length_pix)
            IN  /\ ret[t] = Max(Min(raw, IMX477_FRAME_LENGTH_MAX), M.height)
                /\ f \in {M.max_fps, M.timeperframe_default} =>
                       /\ ret[t] = raw
                       /\ ret[t] \in M.height..IMX477_FRAME_LENGTH_MAX

\* a call whose quotient is above the register maximum has returned the cap
C15_Witness ==
    \E t \in Threads :
        /\ HasResult(t, "get_frame_length")
        /\ FloorOfProduct(op[t].arg[2].numerator, IMX477_PIXEL_RATE,
               op[t].arg[2].denominator * supported_modes[op[t].arg[1]].line_length_pix)
              > IMX477_FRAME_LENGTH_MAX
        /\ ret[t] = IMX477_FRAME_LENGTH_MAX

\* C16: imx477_set_frame_length(r) leaves in long_exp_shift the least shift s
\* with (r >> s) <= IMX477_FRAME_LENGTH_MAX, writes r >> s to the frame length
\* register and then s to the long exposure shift register, so the frame
\* length on the wire never exceeds the maximum; for r at or below the
\* maximum the shift is 0 and the value written is r.
C16_SetFrameLength ==
    \A t \in Threads :
        HasResult(t, "set_frame_length") =>
            LET r == op[t].arg
                s == long_exp_shift
                W == WritesOf(t)
            IN  /\ s >= 0
                /\ Shr(r, s) <= IMX477_FRAME_LENGTH_MAX
                /\ s > 0 => Shr(r, s - 1) > IMX477_FRAME_LENGTH_MAX
                /\ Len(W) >= 1
                /\ W[1].reg = IMX477_REG_FRAME_LENGTH
                /\ W[1].val = Shr(r, s)
                /\ W[1].val <= IMX477_FRAME_LENGTH_MAX
                /\ W[1].ok => /\ Len(W) = 2
                              /\ W[2].reg = IMX477_LONG_EXP_SHIFT_REG
                              /\ W[2].val = s
                /\ r <= IMX477_FRAME_LENGTH_MAX => s = 0 /\ W[1].val = r

\* a request above four times the maximum was written with both registers
C16_Witness ==
    \E t \in Threads :
        /\ HasResult(t, "set_frame_length")
        /\ op[t].arg > 4 * IMX477_FRAME_LENGTH_MAX
        /\ long_exp_shift > 2
        /\ ret[t] = OK
        /\ Len(WritesOf(t)) = 2

\* C17: in every reachable state the long exposure shift is between 0 and
\* IMX477_LONG_EXP_SHIFT_MAX.
C17_ShiftBound == long_exp_shift \in 0..IMX477_LONG_EXP_SHIFT_MAX

\* ---------------------------------------------------------------------------
\* One caller that starts and stops streaming and sets the two flips
\* ---------------------------------------------------------------------------
FlipRequests == { <<"HFLIP", 1>>, <<"VFLIP", 1>>, <<"VFLIP", 0>> }

FlipNext ==
    \/ \E enable \in BOOLEAN : SStreamEnter(1, enable)
    \/ SStreamGet(1)
    \/ StartCommon(1)
    \/ StartSetFlag(1)
    \/ StartMode(1)
    \/ StartSetup(1)
    \/ StartEnable(1)
    \/ SStreamStop(1)
    \/ SStreamFinish(1)
    \/ \E rq \in FlipRequests : SCtrlEnter(1, rq[1], rq[2])
    \/ SCtrlApply(1)
    \/ Unlock(1)
    \/ Return(1)
    \/ PmWork

FlipSpec == Init /\ [][FlipNext]_vars

\* the register writes a step puts on the bus
NewEntries == SubSeq(wire', Len(wire) + 1, Len(wire'))

\* the writes to the exposure register among them
NewExposureWrites == SelectSeq(NewEntries, LAMBDA e : e.reg = IMX477_REG_EXPOSURE)

\* thread t takes the step that applies control id for v4l2_ctrl_s_ctrl
SCtrlStep(t, id) == pc[t] = "sc_apply" /\ pc'[t] # "sc_apply" /\ op[t].arg[1] = id

\* C18: whenever an EXPOSURE value e is applied, the value written to the
\* exposure register is e >> s for the long exposure shift s in force: a value
\* set by the caller and a value clamped by a VBLANK change are written with
\* the shift the last imx477_set_frame_length left, and the value replayed at
\* stream start is written with the shift that the replay of VBLANK just
\* before it left.
C18_ExposureShift ==
    [][\A t \in Threads :
          /\ (SCtrlStep(t, "EXPOSURE") /\ NewExposureWrites # << >>) =>
                NewExposureWrites[1].val =
                    Shr(Clamp(op[t].arg[2], IMX477_EXPOSURE_MIN, exposure_max), long_exp_shift)
          /\ (SCtrlStep(t, "VBLANK") /\ NewExposureWrites # << >>) =>
                NewExposureWrites[1].val =
                    Shr(Clamp(ctrl["EXPOSURE"], IMX477_EXPOSURE_MIN, exposure_max'),
                        long_exp_shift)
          /\ (pc[t] = "ss_setup" /\ pc'[t] = "ss_enable") =>
                NewExposureWrites[Len(NewExposureWrites)].val =
                    Shr(ctrl'["EXPOSURE"], long_exp_shift')
      ]_vars

\* C19: setting VBLANK to vb makes the EXPOSURE maximum
\* cur_mode.height + vb - IMX477_EXPOSURE_OFFSET and leaves the EXPOSURE
\* value at the smaller of its previous value and the new maximum.
C19_ExposureFollowsVblank ==
    [][\A t \in Threads :
          SCtrlStep(t, "VBLANK") =>
              LET vb == Clamp(op[t].arg[2], CtrlMin("VBLANK", cur_mode),
                              CtrlMax("VBLANK", cur_mode, exposure_max))
              IN  /\ exposure_max' = supported_modes[cur_mode].height + vb
                                         - IMX477_EXPOSURE_OFFSET
                  /\ ctrl'["EXPOSURE"] = Min(ctrl["EXPOSURE"], exposure_max')
      ]_vars

\* the writes to the frame length register among a step's writes
NewFrameLengthWrites == SelectSeq(NewEntries, LAMBDA e : e.reg = IMX477_REG_FRAME_LENGTH)

\* a step requests a frame length, or changes what the frame length should be
FrameLengthMoves ==
    \/ NewFrameLengthWrites # << >>
    \/ cur_mode' # cur_mode
    \/ ctrl'["VBLANK"] # ctrl["VBLANK"]

\* C20: the frame length last requested from imx477_set_frame_length is
\* cur_mode.height + VBLANK: every step that changes the mode or VBLANK, or
\* that requests a frame length, ends with a request for the height of the
\* new mode plus the new VBLANK.
C20_FrameLengthIsHeightPlusVblank ==
    [][FrameLengthMoves =>
          /\ NewFrameLengthWrites # << >>
          /\ NewFrameLengthWrites[Len(NewFrameLengthWrites)].val
                = ShiftLoop(supported_modes[cur_mode'].height + ctrl'["VBLANK"], 0).val
      ]_vars

\* C21: for every mode and every HBLANK value in the mode's published range,
\* setting HBLANK puts cur_mode.width + HBLANK on the bus as the 16-bit line
\* length, untruncated.
C21_LineLength ==
    \A t \in Threads :
        (HasResult(t, "s_ctrl") /\ op[t].arg[1] = "HBLANK" /\ WritesOf(t) # << >>) =>
            LET hblank == Clamp(op[t].arg[2], CtrlMin("HBLANK", cur_mode),
                                CtrlMax("HBLANK", cur_mode, exposure_max))
            IN  /\ WritesOf(t)[1].reg = IMX477_REG_LINE_LENGTH
                /\ WritesOf(t)[1].val = supported_modes[cur_mode].width + hblank

\* the other flip control
OtherFlip(id) == IF id = "HFLIP" THEN "VFLIP" ELSE "HFLIP"

\* C22: setting HFLIP or VFLIP issues exactly one 8-bit write to the
\* orientation register, with the value hflip | (vflip << 1) made of the new
\* value of the control being set and the current value of the other flip;
\* the other flip's value is unchanged.
C22_Orientation ==
    [][\A t \in Threads, id \in {"HFLIP", "VFLIP"} :
          (SCtrlStep(t, id) /\ NewEntries # << >>) =>
              LET v == op[t].arg[2]
              IN  /\ Len(NewEntries) = 1
                  /\ NewEntries[1].reg = IMX477_REG_ORIENTATION
                  /\ NewEntries[1].val =
                         (IF id = "HFLIP" THEN v ELSE ctrl["HFLIP"])
                           + 2 * (IF id = "VFLIP" THEN v ELSE ctrl["VFLIP"])
                  /\ ctrl'[OtherFlip(id)] = ctrl[OtherFlip(id)]
      ]_vars

\* the register value the test pattern menu entry i stands for: Disabled,
\* Color Bars, Solid Color, Grey Color Bars, PN9
TestPatternOf(i) == << 0, 2, 1, 3, 4 >>[i + 1]

\* C23: setting TEST_PATTERN to menu index i writes the table's value for i
\* to the test pattern register (0, 2, 1, 3, 4 for the five entries), not i;
\* the table has a value for every index of the menu, and distinct indices
\* have distinct values.
C23_TestPattern ==
    /\ DOMAIN imx477_test_pattern_val
          = CtrlMin("TEST_PATTERN", cur_mode)..CtrlMax("TEST_PATTERN", cur_mode, exposure_max)
    /\ \A i \in DOMAIN imx477_test_pattern_val, j \in DOMAIN imx477_test_pattern_val :
           i # j => imx477_test_pattern_val[i] # imx477_test_pattern_val[j]
    /\ \A t \in Threads :
           (HasResult(t, "s_ctrl") /\ op[t].arg[1] = "TEST_PATTERN" /\ WritesOf(t) # << >>) =>
               /\ Len(WritesOf(t)) = 1
               /\ WritesOf(t)[1].reg = IMX477_REG_TEST_PATTERN
               /\ WritesOf(t)[1].val = TestPatternOf(op[t].arg[2])

\* Color Bars (index 1) was set and 2 was written
C23_Witness ==
    \E t \in Threads :
        /\ HasResult(t, "s_ctrl") /\ op[t].arg = <<"TEST_PATTERN", 1>>
        /\ ret[t] = OK /\ ctrl["TEST_PATTERN"] = 1
        /\ Len(WritesOf(t)) = 1 /\ WritesOf(t)[1].val = 2 /\ WritesOf(t)[1].ok

\* the caller's v4l2_ctrl_s_ctrl runs imx477_set_ctrl and comes back, having
\* asked for a value inside the control's range
SetInRange(t) ==
    /\ pc[t] = "call" /\ op[t].name = "s_ctrl" /\ pc'[t] = "result"
    /\ op[t].arg[2] >= CtrlMin(op[t].arg[1], cur_mode)
    /\ op[t].arg[2] <= CtrlMax(op[t].arg[1], cur_mode, exposure_max)

LastWriteIs(W, reg, val) ==
    \E i \in 1..Len(W) :
        /\ W[i].ph = "ctrl" /\ W[i].reg = reg /\ W[i].ok /\ W[i].val = val
        /\ \A j \in (i + 1)..Len(W) : W[j].reg # reg

\* the registers of control id hold the encoding of its stored value: the
\* value itself for the gains and the test pattern colours, the table value
\* for the test pattern, hflip | vflip << 1 for either flip, width + HBLANK,
\* (height + VBLANK) >> shift with the shift, and EXPOSURE >> shift
HoldsStored(W, id) ==
    LET v == ctrl[id]
        m == supported_modes[cur_mode]
    IN  CASE id = "VBLANK" ->
                /\ LastWriteIs(W, IMX477_REG_FRAME_LENGTH, Shr(m.height + v, long_exp_shift))
                /\ LastWriteIs(W, IMX477_LONG_EXP_SHIFT_REG, long_exp_shift)
          [] id = "HBLANK" -> LastWriteIs(W, IMX477_REG_LINE_LENGTH, m.width + v)
          [] id = "EXPOSURE" -> LastWriteIs(W, IMX477_REG_EXPOSURE, Shr(v, long_exp_shift))
          [] id = "ANALOGUE_GAIN" -> LastWriteIs(W, IMX477_REG_ANALOG_GAIN, v)
          [] id = "DIGITAL_GAIN" -> LastWriteIs(W, IMX477_REG_DIGITAL_GAIN, v)
          [] id \in {"HFLIP", "VFLIP"} ->
                LastWriteIs(W, IMX477_REG_ORIENTATION, ctrl["HFLIP"] + 2 * ctrl["VFLIP"])
          [] id = "TEST_PATTERN" -> LastWriteIs(W, IMX477_REG_TEST_PATTERN, TestPatternOf(v))
          [] id = "TEST_PATTERN_RED" -> LastWriteIs(W, IMX477_REG_TEST_PATTERN_R, v)
          [] id = "TEST_PATTERN_GREENR" -> LastWriteIs(W, IMX477_REG_TEST_PATTERN_GR, v)
          [] id = "TEST_PATTERN_BLUE" -> LastWriteIs(W, IMX477_REG_TEST_PATTERN_B, v)
          [] id = "TEST_PATTERN_GREENB" -> LastWriteIs(W, IMX477_REG_TEST_PATTERN_GB, v)

\* C25: a successful start of streaming has applied every control between
\* the mode program and MODE_SELECT = streaming, and at its return the
\* registers of every control hold the encoding of the control's stored value.
C25_ReplayHoldsStored ==
    \A t \in Threads :
        StartReturned(t) /\ ret[t] = OK =>
            LET W == WritesOf(t)
            IN  /\ \A i \in 1..Len(W) :
                       W[i].ph = "ctrl" =>
                           /\ \E j \in 1..(i - 1) : W[j].ph = "mode"
                           /\ \A j \in 1..(i - 1) : W[j].ph # "select"
                /\ \A id \in CtrlIds : HoldsStored(W, id)

\* thread t has returned from a stop of streaming that was not redundant
StopReturned(t) == Returned(t, "s_stream") /\ ~op[t].arg /\ pre[t].streaming

\* C26: a stop of streaming on a streaming device writes MODE_SELECT =
\* standby once; whether or not the write succeeded it then drops one power
\* reference (pm_runtime_put), clears streaming and returns 0, having
\* written nothing else.
C26_StopStreaming ==
    [][\A t \in Threads :
          /\ pc[t] = "ss_stop" /\ pc'[t] # "ss_stop" =>
                /\ pre[t].streaming /\ streaming
                /\ Len(NewEntries) = 1
                /\ NewEntries[1].reg = IMX477_REG_MODE_SELECT
                /\ NewEntries[1].val = IMX477_MODE_STANDBY
                /\ WritesOf(t) = << >>
                /\ usage_count' = UsageDec(usage_count)
                /\ pc'[t] = "ss_fin"
          /\ pc[t] = "ss_fin" /\ ~op[t].arg /\ pc'[t] # "ss_fin" =>
                /\ ~streaming' /\ ret'[t] = OK /\ pc'[t] = "done"
                /\ wire' = wire /\ usage_count' = usage_count]_vars

\* a stop has returned 0 with streaming cleared although its standby write
\* was not acknowledged
C26_Witness ==
    \E t \in Threads :
        /\ StopReturned(t) /\ ret[t] = OK /\ ~streaming
        /\ Len(WritesOf(t)) = 1 /\ ~WritesOf(t)[1].ok
        /\ WritesOf(t)[1].val = IMX477_MODE_STANDBY

\* the length of each register program
ProgramLen(ph) ==
    CASE ph = "common" -> CommonLen [] ph = "extra" -> ExtraLen [] ph = "mode" -> ModeLen

\* C27: the writes of a register program are rows 1, 2, ... of the table in
\* this order, each once; a row is attempted only after every row before it
\* succeeded; when a row fails it is not attempted again, nothing at all is
\* written after it, and the operation returns the error of that write.
C27_ProgramInOrder ==
    \A t \in Threads :
        LET W == WritesOf(t)
        IN  /\ \A ph \in {"common", "extra", "mode"} :
                   LET P == PhaseOf(W, ph)
                   IN  /\ Len(P) <= ProgramLen(ph)
                       /\ \A i \in 1..Len(P) : P[i].reg = i /\ (i < Len(P) => P[i].ok)
            /\ \A i \in 1..Len(W) :
                   W[i].ph \in {"common", "extra", "mode"} /\ ~W[i].ok =>
                       /\ i = Len(W)
                       /\ pc[t] = "done" /\ ret[t] = EIO

\* row 2 of the mode program failed on a powered sensor after row 1 was written
C27_Witness ==
    \E t \in Threads :
        LET P == PhaseOf(WritesOf(t), "mode")
        IN  /\ StartReturned(t) /\ ret[t] = EIO /\ runtime_active
            /\ Len(P) = 2 /\ P[1].ok /\ ~P[2].ok

\* C28: a register access is issued only while the sensor is powered (its
\* supplies and clock on, reset released and the settle delay of
\* __imx477_power_on over, which is what runtime_active stands for).
C28_AccessOnlyPowered ==
    [][Len(wire') > Len(wire) => runtime_active]_vars

\* C29: a start of streaming whose power-up fails returns the error in that
\* step, with the sensor left unpowered, the usage count what it was before
\* the call, streaming false, and no register write issued.
C29_FailedPowerUp ==
    [][\A t \in Threads :
          pc[t] = "ss_get" /\ pc'[t] # "ss_get" /\ ret'[t] = EPOWER =>
              /\ pc'[t] = "done"
              /\ ~runtime_active'
              /\ usage_count' = usage_count
              /\ ~streaming'
              /\ wire' = wire]_vars

\* val is no wider than len bytes
Fits(len, val) == val < 256 ^ len

\* C30: imx477_write_reg and imx477_read_reg refuse a width above 4 bytes,
\* and imx477_write_reg refuses a value wider than the given width, with
\* -EINVAL and without a transfer.
C30_RejectsBadArguments ==
    \A t \in Threads :
        /\ HasResult(t, "read_reg") /\ op[t].arg > 4 =>
               ret[t] = EINVAL /\ WritesOf(t) = << >>
        /\ HasResult(t, "write_reg") /\ op[t].arg[1] > 4 =>
               ret[t] = EINVAL /\ WritesOf(t) = << >>
        /\ HasResult(t, "write_reg") /\ op[t].arg[1] <= 4 /\ ~Fits(op[t].arg[1], op[t].arg[2]) =>
               ret[t] = EINVAL /\ WritesOf(t) = << >>

\* the sensor holds a mode program: a start of streaming has written it and
\* is on its way to the end, or streaming is on
InSession ==
    \/ streaming
    \/ \E t \in Threads : /\ op[t].name = "s_stream" /\ op[t].arg
                          /\ pc[t] \in {"ss_setup", "ss_enable", "ss_fin"}

\* C31: from the write of the mode program on and for as long as streaming
\* is true, cur_mode stays the mode whose program the start wrote: no step
\* taken in between changes it.
C31_ModeFixedWhileStreaming ==
    [][InSession /\ InSession' => cur_mode' = cur_mode]_vars

\* C32: on a streaming sensor, a set of VBLANK whose writes all succeed and
\* that changes long_exp_shift, or clamps the EXPOSURE value, leaves the
\* exposure register holding (EXPOSURE value) >> (long_exp_shift) for the new
\* value and the new shift: the last write of the call to that register
\* carries it.
C32_ExposureReencoded ==
    [][\A t \in Threads :
          /\ SCtrlStep(t, "VBLANK") /\ streaming /\ runtime_active
          /\ \A i \in 1..Len(NewEntries) : NewEntries[i].ok
          /\ \/ long_exp_shift' # long_exp_shift
             \/ ctrl'["EXPOSURE"] # ctrl["EXPOSURE"]
          => LastWriteIs(NewEntries, IMX477_REG_EXPOSURE,
                         Shr(ctrl'["EXPOSURE"], long_exp_shift'))]_vars

\* C33: a control set leaves the usage count as it found it, and while
\* streaming stays true the count stays above zero, the sensor stays powered
\* and common_regs_written is not cleared.
C33_BalancedReferences ==
    [][/\ \A t \in Threads :
              pc[t] = "sc_apply" /\ pc'[t] # "sc_apply" => usage_count' = usage_count
       /\ streaming /\ streaming' =>
              /\ usage_count' > 0
              /\ runtime_active => runtime_active'
              /\ common_regs_written => common_regs_written']_vars

\* C34: the EXPOSURE range is not empty, and the stored EXPOSURE value lies
\* between IMX477_EXPOSURE_MIN and height + VBLANK - IMX477_EXPOSURE_OFFSET
\* for the current mode and the stored VBLANK value.
C34_ExposureWithinFrame ==
    /\ IMX477_EXPOSURE_MIN <= exposure_max
    /\ IMX477_EXPOSURE_MIN <= ctrl["EXPOSURE"]
    /\ ctrl["EXPOSURE"] <= supported_modes[cur_mode].height + ctrl["VBLANK"]
                              - IMX477_EXPOSURE_OFFSET

\* C35: hflip and vflip are grabbed exactly when streaming is true, and a
\* start of streaming that failed has left them free.
C35_GrabbedIffStreaming ==
    /\ grabbed <=> streaming
    /\ \A t \in Threads : StartReturned(t) /\ ret[t] # OK => ~grabbed

\* thread t has returned from a start that failed after the common and extra
\* programs: in the mode program, the control replay or the stream-on write
LateFailure(t) ==
    /\ StartReturned(t) /\ ret[t] = EIO
    /\ WritesOf(t) # << >>
    /\ WritesOf(t)[Len(WritesOf(t))].ph \in {"mode", "ctrl", "select"}

\* C36, as the specification states it: after a start that failed in a later
\* step common_regs_written is true, and stays true until the caller goes on.
C36_TrueAfterLateFailure ==
    [][\A t \in Threads : LateFailure(t)' => common_regs_written']_vars

\* t's start fails in this step
StartFails(t) ==
    /\ pc[t] \in {"ss_common", "ss_mode", "ss_setup", "ss_enable"}
    /\ pc'[t] = "done" /\ ret'[t] = EIO

\* C36, amended: common_regs_written becomes true only in the step that
\* follows the complete common and extra programs; a start that reads it
\* false begins with row 1 of the common program and leaves it false if the
\* common or extra program fails; a start that reads it true writes nothing
\* of those programs; and the step in which a start fails does not change it.
\* (A suspend of the sensor clears it, also between a failed start and the
\* retry, and the retry then writes the common program again.)
C36_FlagSetAndKept ==
    [][/\ (~common_regs_written /\ common_regs_written') =>
              \E t \in Threads :
                 /\ pc[t] = "ss_setflag" /\ Acting(t)
                 /\ WholeProgram(WritesOf(t), "common", CommonLen)
                 /\ WholeProgram(WritesOf(t), "extra", ExtraLen)
       /\ \A t \in Threads :
              /\ StartFails(t) => common_regs_written' = common_regs_written
              /\ pc[t] = "ss_common" /\ pc'[t] # "ss_common" =>
                     IF common_regs_written
                     THEN NewEntries = << >>
                     ELSE /\ NewEntries # << >>
                          /\ NewEntries[1].ph = "common" /\ NewEntries[1].reg = 1
                          /\ StartFails(t) => ~common_regs_written']_vars

\* a start that wrote the common program failed in the mode program and has
\* returned with common_regs_written still true
C36_Witness ==
    \E t \in Threads :
        /\ LateFailure(t) /\ ~pre[t].common /\ common_regs_written
        /\ WholeProgram(WritesOf(t), "common", CommonLen)
        /\ WritesOf(t)[Len(WritesOf(t))].ph = "mode"

====
